---- MODULE Spec2Model ----
(***************************************************************************)
(* Model of light-instruction-decoder's LiteSVM integration               *)
(* (light-instruction-decoder/src/litesvm.rs).                             *)
(*                                                                         *)
(* Spec      the reconstruction of the call tree of one top-level         *)
(*           instruction from its flat inner-instruction trace            *)
(*           (decode_transaction_inner, parse_inner_instructions).        *)
(* SpecDiff  decode_transaction with optional pre/post account states.    *)
(* SpecCapture  capture_account_states over the live accounts.            *)
(* SpecDecode  one call of an instruction decoder's decode.               *)
(* SpecRegistry  register calls on a DecoderRegistry.                     *)
(* SpecTx  decode_transaction_inner over a whole transaction.             *)
(***************************************************************************)
EXTENDS Integers, Sequences, FiniteSets, TLC

\* ------------------------------------------------------------------ bounds

\* Longest inner-instruction trace of one top-level instruction.
MaxLen == 5
\* Largest stack height a record of the trace carries.
MaxHeight == 5
\* Number of account keys besides the default key.
MaxKeys == 2
\* The most accounts handed to one decode call; the counter program's
\* Configure declares 10.
MaxAccounts == 11
\* The most register calls on one registry.
MaxRegistrations == 4
\* The most top-level instructions of a transaction.
MaxInstructions == 2

VARIABLES
    pc,            \* position of the decode: "start", "inner", "push", "done"
    inner_ixs,     \* meta.inner_instructions.get(ix_index): None or the stack
                   \* heights of the records of the trace, in trace order
    inner_idx,     \* number of records parse_inner_instructions has processed
    parent,        \* the top-level ix_log and everything below it:
                   \* parent[0] is the entry itself, parent[k] the entry built
                   \* from record k; inner_instructions lists hold record numbers
    instructions,  \* log.instructions of decode_transaction_inner
    result,        \* the harness' TransactionResult: "Ok" or "Err"
    pre_states,    \* Option<&AccountStates> given to decode_transaction
    post_states,   \* Option<&AccountStates> given to decode_transaction
    log,           \* the EnhancedTransactionLog decode_transaction returns
    svm,           \* the live accounts of the LiteSVM: pubkey -> account
    account_keys,  \* tx.message.static_account_keys()
    states,        \* what capture_account_states returns
    dec,           \* the InstructionDecoder decode is called on
    variant,       \* the table entry the payload was encoded for
    args,          \* the argument values the payload was encoded from
    raw,           \* the payload handed to decode
    metas,         \* the accounts handed to decode
    decoded,       \* what decode returns
    registry,      \* the DecoderRegistry: program id -> decoder
    registered,    \* the decoders handed to register so far, in call order
    transaction,   \* the VersionedTransaction that is decoded
    execution,     \* its TransactionResult: Ok(meta) or Err(err, meta)
    tx_log,        \* the EnhancedTransactionLog decode_transaction_inner returns
    content,       \* the text handed to strip_ansi_codes, a list of characters
    stripped,      \* what strip_ansi_codes returns
    slice,         \* the bytes handed to CompressedCpiContext::try_from_slice
    deserialized,  \* what try_from_slice returns
    counter,       \* the AtomicUsize of the logger
    LOG_INIT,      \* the Once: "new", "running" or "done"
    LOG_INIT_DONE, \* the AtomicBool
    file,          \* the contents of the log file: the texts written, in order
    callers,       \* thread -> position in the callback, its tx_number, and
                   \* the number of calls it has finished
    tx_numbers,    \* the tx_numbers handed out so far, in the order of fetch_add
    created,       \* the number of File::create calls made so far
    appended       \* the texts appended so far, in the order of the writes

vars == <<pc, inner_ixs, inner_idx, parent, instructions, result, pre_states,
          post_states, log, svm, account_keys, states, dec, variant, args,
          raw, metas, decoded, registry, registered, transaction,
          execution, tx_log, content, stripped, slice, deserialized,
          counter, LOG_INIT, LOG_INIT_DONE, file, callers, tx_numbers,
          created, appended>>

captureVars == <<svm, account_keys, states>>
decodeVars == <<dec, variant, args, raw, metas, decoded>>
registryVars == <<registry, registered>>
txVars == <<transaction, execution, tx_log>>
stripVars == <<content, stripped>>
borshVars == <<slice, deserialized>>
loggerVars == <<counter, LOG_INIT, LOG_INIT_DONE, file, callers, tx_numbers,
                created, appended>>
ioVars == <<stripVars, borshVars, loggerVars>>

\* The variables of the specifications other than Spec and SpecDiff.
extVars == <<captureVars, decodeVars, registryVars, txVars, ioVars>>

diffVars == <<result, pre_states, post_states, log>>

\* Option<T>: None is the empty sequence, Some(x) the sequence holding x.
None == <<>>
Some(x) == <<x>>
unwrap(opt) == opt[1]

\* The record number that stands for the top-level entry in parent.
Top == 0
\* find_parent_for_instruction found nothing.
NotFound == -1

\* ------------------------------------------------- EnhancedInstructionLog

\* EnhancedInstructionLog::new(index, ..) followed by the assignment of depth.
new_ix_log(index, depth) ==
    [index |-> index, depth |-> depth, inner_instructions |-> <<>>]

\* Vec::push
push_front(v, x) == <<x>> \o v
push(v, x) == Append(v, x)

\* (stack_height as usize).saturating_sub(1)
depth_no_sub(stack_height) == stack_height
depth_of(stack_height) == IF stack_height >= 1 THEN stack_height - 1 ELSE 0

\* EnhancedInstructionLog::find_parent_for_instruction(instructions, target_depth):
\* depth-first search of the tree below `list`, the most recently pushed
\* entry of every list first, an entry before the entries below it.
RECURSIVE find_parent_for_instruction(_, _, _)
find_parent_for_instruction(tree, list, target_depth) ==
    IF list = <<>> THEN NotFound
    ELSE LET last == list[Len(list)]
             below == find_parent_for_instruction(
                          tree, tree[last].inner_instructions, target_depth)
         IN  IF tree[last].depth = target_depth THEN last
             ELSE IF below # NotFound THEN below
             ELSE find_parent_for_instruction(
                      tree, SubSeq(list, 1, Len(list) - 1), target_depth)

\* The entry whose inner_instructions receives a record of the given depth
\* (the if/else of parse_inner_instructions).
nested_parent_shallow(tree, depth) ==
    IF depth <= 2 THEN Top
    ELSE LET np == find_parent_for_instruction(
                       tree, tree[Top].inner_instructions, depth - 1)
         IN  IF np # NotFound THEN np ELSE Top
nested_parent_fallback_last(tree, depth) ==
    IF depth <= 1 THEN Top
    ELSE LET np == find_parent_for_instruction(
                       tree, tree[Top].inner_instructions, depth - 1)
         IN  IF np # NotFound THEN np
             ELSE IF tree[Top].inner_instructions = <<>> THEN Top
             ELSE tree[Top].inner_instructions[Len(tree[Top].inner_instructions)]
nested_parent_always_search(tree, depth) ==
    IF depth = 0 THEN Top
    ELSE LET np == find_parent_for_instruction(
                       tree, tree[Top].inner_instructions, depth - 1)
         IN  IF np # NotFound THEN np ELSE Top
nested_parent(tree, depth) ==
    IF depth <= 1 THEN Top
    ELSE LET target_depth == depth - 1
             np == find_parent_for_instruction(
                       tree, tree[Top].inner_instructions, target_depth)
         IN  IF np # NotFound THEN np ELSE Top

\* One iteration of the loop of parse_inner_instructions: record number k
\* (inner_idx = k - 1) with the given stack height is built and pushed.
parse_inner_instruction_no_else(tree, k, stack_height) ==
    LET depth  == depth_of(stack_height)
        ix_log == new_ix_log(k - 1, depth)
        np     == IF depth <= 1 THEN Top
                  ELSE find_parent_for_instruction(
                           tree, tree[Top].inner_instructions, depth - 1)
        grown  == [n \in (DOMAIN tree) \cup {k} |->
                      IF n = k THEN ix_log ELSE tree[n]]
    IN  IF np = NotFound THEN grown
        ELSE [grown EXCEPT ![np].inner_instructions = push(@, k)]
parse_inner_instruction(tree, k, stack_height) ==
    LET depth  == depth_of(stack_height)
        ix_log == new_ix_log(k - 1, depth)
        np     == nested_parent(tree, depth)
        grown  == [n \in (DOMAIN tree) \cup {k} |->
                      IF n = k THEN ix_log ELSE tree[n]]
    IN  [grown EXCEPT ![np].inner_instructions = push(@, k)]

\* The whole loop of parse_inner_instructions over the first n records of t.
RECURSIVE parse_inner_instructions(_, _, _)
parse_inner_instructions(t, n, tree) ==
    IF n = 0 THEN tree
    ELSE parse_inner_instruction(
             parse_inner_instructions(t, n - 1, tree), n, t[n])

\* ------------------------------------------------------- decode_transaction

\* Pubkey::default()
Pubkey_default == 0

\* Option::unwrap_or
unwrap_or(opt, default) == IF opt = None THEN default ELSE unwrap(opt)

\* HashMap::get
get(map, key) == IF key \in DOMAIN map THEN Some(map[key]) ELSE None

\* EnhancedTransactionLog::new(signature, 0): no instructions yet and no
\* account states.
EnhancedTransactionLog_new ==
    [status |-> "Unknown", instructions |-> <<>>, account_states |-> None]

\* decode_transaction_inner for a transaction of one top-level instruction
\* whose inner-instruction trace is ixs (None when the metadata has none).
decode_transaction_inner(ixs, res) ==
    LET status == IF res = "Ok" THEN "Success" ELSE "Failed"
        top    == (Top :> new_ix_log(0, 0))
        ix_log == IF ixs # None
                  THEN parse_inner_instructions(unwrap(ixs), Len(unwrap(ixs)), top)
                  ELSE top
    IN  [EnhancedTransactionLog_new EXCEPT
            !.status = status,
            !.instructions = push(@, ix_log)]

\* The first loop of decode_transaction: a snapshot for every key of pre, its
\* after values from post, or (0, 0, default) when post has no such key.
\* Every iteration inserts under its own key, so the order in which the map
\* is walked does not show in the result.
snapshots_of_pre_both_only(pre, post) ==
    [pubkey \in (DOMAIN pre) \cap (DOMAIN post) |->
        [lamports_before |-> pre[pubkey][1],
         lamports_after  |-> post[pubkey][1],
         data_len_before |-> pre[pubkey][2],
         data_len_after  |-> post[pubkey][2],
         owner           |-> pre[pubkey][3]]]
snapshots_of_pre_owner_of_post(pre, post) ==
    [pubkey \in DOMAIN pre |->
        LET p == unwrap_or(get(post, pubkey), <<0, 0, pre[pubkey][3]>>)
        IN  [lamports_before |-> pre[pubkey][1],
             lamports_after  |-> p[1],
             data_len_before |-> pre[pubkey][2],
             data_len_after  |-> p[2],
             owner           |-> p[3]]]
snapshots_of_pre(pre, post) ==
    [pubkey \in DOMAIN pre |->
        LET p == unwrap_or(get(post, pubkey), <<0, 0, Pubkey_default>>)
        IN  [lamports_before |-> pre[pubkey][1],
             lamports_after  |-> p[1],
             data_len_before |-> pre[pubkey][2],
             data_len_after  |-> p[2],
             owner           |-> pre[pubkey][3]]]

\* The second loop of decode_transaction: entry(pubkey).or_insert(..) for
\* every key of post; a key that has a snapshot keeps it.
or_insert_post_before_copied(snapshots, post) ==
    [pubkey \in (DOMAIN snapshots) \cup (DOMAIN post) |->
        IF pubkey \in DOMAIN snapshots THEN snapshots[pubkey]
        ELSE [lamports_before |-> post[pubkey][1],
              lamports_after  |-> post[pubkey][1],
              data_len_before |-> post[pubkey][2],
              data_len_after  |-> post[pubkey][2],
              owner           |-> post[pubkey][3]]]
or_insert_post(snapshots, post) ==
    [pubkey \in (DOMAIN snapshots) \cup (DOMAIN post) |->
        IF pubkey \in DOMAIN snapshots THEN snapshots[pubkey]
        ELSE [lamports_before |-> 0,
              lamports_after  |-> post[pubkey][1],
              data_len_before |-> 0,
              data_len_after  |-> post[pubkey][2],
              owner           |-> post[pubkey][3]]]

\* decode_transaction(tx, result, config, pre_states, post_states)
decode_transaction_pre_suffices(ixs, res, pre, post) ==
    LET inner == decode_transaction_inner(ixs, res)
    IN  IF pre # None
        THEN LET po == unwrap_or(post, <<>>)
             IN  [inner EXCEPT !.account_states =
                     Some(or_insert_post(snapshots_of_pre(unwrap(pre), po), po))]
        ELSE inner
decode_transaction(ixs, res, pre, post) ==
    LET inner == decode_transaction_inner(ixs, res)
    IN  IF pre # None /\ post # None
        THEN [inner EXCEPT !.account_states =
                 Some(or_insert_post(
                          snapshots_of_pre(unwrap(pre), unwrap(post)),
                          unwrap(post)))]
        ELSE inner

\* --------------------------------------------------- capture_account_states

\* HashMap::insert
insert(map, key, value) ==
    [k \in (DOMAIN map) \cup {key} |-> IF k = key THEN value ELSE map[k]]

\* LiteSVM::get_account
get_account(accounts, key) == get(accounts, key)

\* The loop of capture_account_states over the first n account keys.
RECURSIVE capture_account_states_skip_missing(_, _, _)
capture_account_states_skip_missing(accounts, keys, n) ==
    IF n = 0 THEN <<>>
    ELSE LET before  == capture_account_states_skip_missing(accounts, keys, n - 1)
             account == get_account(accounts, keys[n])
         IN  IF account # None
             THEN insert(before, keys[n],
                         <<unwrap(account).lamports, Len(unwrap(account).data),
                           unwrap(account).owner>>)
             ELSE before
RECURSIVE capture_account_states_loop(_, _, _)
capture_account_states_loop(accounts, keys, n) ==
    IF n = 0 THEN <<>>
    ELSE LET before  == capture_account_states_loop(accounts, keys, n - 1)
             account == get_account(accounts, keys[n])
         IN  IF account # None
             THEN insert(before, keys[n],
                         <<unwrap(account).lamports, Len(unwrap(account).data),
                           unwrap(account).owner>>)
             ELSE insert(before, keys[n], <<0, 0, Pubkey_default>>)

\* capture_account_states(svm, tx)
capture_account_states(accounts, keys) ==
    capture_account_states_loop(accounts, keys, Len(keys))

\* ------------------------------------------------------ binary field reader

\* The first n bytes of a slice, and the slice after them.
take(bytes, n) == SubSeq(bytes, 1, n)
skip(bytes, n) == SubSeq(bytes, n + 1, Len(bytes))

Reverse(list) == [i \in 1..Len(list) |-> list[Len(list) + 1 - i]]

\* Long division of a number, given by its digits in base `from` with the
\* most significant first, by `to`: the remainder after the first n digits
\* and the digits of the quotient.
RECURSIVE rem_after(_, _, _, _)
rem_after(digits, from, to, n) ==
    IF n = 0 THEN 0
    ELSE (rem_after(digits, from, to, n - 1) * from + digits[n]) % to
quotient(digits, from, to) ==
    [i \in 1..Len(digits) |->
        (rem_after(digits, from, to, i - 1) * from + digits[i]) \div to]

\* The digits of the number in base `to`, the least significant first.
RECURSIVE to_base(_, _, _)
to_base(digits, from, to) ==
    IF \A i \in 1..Len(digits) : digits[i] = 0 THEN <<>>
    ELSE <<rem_after(digits, from, to, Len(digits))>>
             \o to_base(quotient(digits, from, to), from, to)

\* The characters of the decimal digits.
Digit == <<"0", "1", "2", "3", "4", "5", "6", "7", "8", "9">>

\* The string of a list of decimal digits, the most significant first.
RECURSIVE digits_to_string(_)
digits_to_string(digits) ==
    IF digits = <<>> THEN ""
    ELSE Digit[Head(digits) + 1] \o digits_to_string(Tail(digits))

\* uN::to_string of the integer whose bytes are given most significant first.
to_string_of(bytes_be) ==
    LET decimal == to_base(bytes_be, 256, 10)
    IN  IF decimal = <<>> THEN "0" ELSE digits_to_string(Reverse(decimal))

\* uN::from_le_bytes(bytes).to_string()
to_string_big_endian(bytes) == to_string_of(bytes)
to_string(bytes) == to_string_of(Reverse(bytes))

\* uN::to_le_bytes of the integer written in decimal, N = 8 * width.
to_le_bytes(decimal, width) ==
    LET le == to_base(decimal, 10, 256)
    IN  [i \in 1..width |-> IF i <= Len(le) THEN le[i] ELSE 0]

\* The Debug rendering of a byte array.
RECURSIVE join_bytes(_)
join_bytes(bytes) ==
    IF bytes = <<>> THEN ""
    ELSE IF Len(bytes) = 1 THEN to_string(bytes)
    ELSE to_string(<<Head(bytes)>>) \o ", " \o join_bytes(Tail(bytes))

\* The number of bytes a field of a kind takes.
size_of(kind) ==
    CASE kind = "u64" -> 8
      [] kind = "u32" -> 4
      [] kind = "u16" -> 2
      [] kind = "bool" -> 1
      [] kind = "[u8; 32]" -> 32

IntegerKinds == {"u64", "u32", "u16"}

\* The display value of a field read from exactly size_of(kind) bytes.
display(kind, bytes) ==
    CASE kind \in IntegerKinds -> to_string(bytes)
      [] kind = "bool" -> IF bytes[1] # 0 THEN "true" ELSE "false"
      [] kind = "[u8; 32]" -> "[" \o join_bytes(bytes) \o "]"

\* The field decode procedure: reads the first n fields of a layout from the
\* bytes after the discriminator; None is TruncatedInput.
RECURSIVE read_fields_no_advance(_, _, _)
read_fields_no_advance(layout, bytes, n) ==
    IF n = 0 THEN Some(<<>>)
    ELSE LET before == read_fields_no_advance(layout, bytes, n - 1)
             size   == size_of(layout[n].kind)
         IN  IF before = None \/ Len(bytes) < size THEN None
             ELSE Some(Append(unwrap(before),
                              [name  |-> layout[n].name,
                               value |-> display(layout[n].kind,
                                                 take(bytes, size))]))
RECURSIVE offset_of(_, _)
offset_of(layout, n) ==
    IF n = 0 THEN 0 ELSE offset_of(layout, n - 1) + size_of(layout[n].kind)
RECURSIVE read_fields(_, _, _)
read_fields(layout, bytes, n) ==
    IF n = 0 THEN Some(<<>>)
    ELSE LET before == read_fields(layout, bytes, n - 1)
             cursor == offset_of(layout, n - 1)
             size   == size_of(layout[n].kind)
         IN  IF before = None \/ Len(bytes) < cursor + size THEN None
             ELSE Some(Append(unwrap(before),
                              [name  |-> layout[n].name,
                               value |-> display(layout[n].kind,
                                                 take(skip(bytes, cursor),
                                                      size))]))

\* ------------------------------------------------------ instruction decoders

\* The program ids of the decoders; the System Program's is the all-zero key.
COUNTER_PROGRAM_ID == 2
COMPUTE_BUDGET_ID == 3
SYSTEM_PROGRAM_ID == Pubkey_default

\* The decoder the instruction_decoder attribute derives for the counter
\* program: Anchor discriminators, the first 8 bytes of sha256("global:<name>").
CounterInstructionDecoder ==
    [program_id   |-> COUNTER_PROGRAM_ID,
     program_name |-> "Counter",
     width        |-> 8,
     table        |-> <<
        [discriminator |-> <<175, 175, 109, 31, 13, 152, 155, 237>>,
         name     |-> "Initialize",
         fields   |-> <<>>,
         accounts |-> <<"counter", "authority", "system_program">>],
        [discriminator |-> <<11, 18, 104, 9, 104, 174, 59, 33>>,
         name     |-> "Increment",
         fields   |-> <<>>,
         accounts |-> <<"counter", "authority">>],
        [discriminator |-> <<106, 227, 168, 59, 248, 27, 150, 101>>,
         name     |-> "Decrement",
         fields   |-> <<>>,
         accounts |-> <<"counter", "authority">>],
        [discriminator |-> <<198, 51, 53, 241, 116, 29, 126, 194>>,
         name     |-> "Set",
         fields   |-> <<[name |-> "value", kind |-> "u64"]>>,
         accounts |-> <<"counter", "authority">>],
        [discriminator |-> <<245, 7, 108, 117, 95, 196, 54, 217>>,
         name     |-> "Configure",
         fields   |-> <<[name |-> "new_value", kind |-> "u64"],
                        [name |-> "multiplier", kind |-> "u16"],
                        [name |-> "enabled", kind |-> "bool"],
                        [name |-> "label", kind |-> "[u8; 32]"],
                        [name |-> "nonce", kind |-> "u64"]>>,
         accounts |-> <<"counter", "authority", "delegate", "fee_receiver",
                        "config", "metadata", "oracle", "backup_authority",
                        "system_program", "rent">>] >>]

\* A decoder with 4-byte discriminators: the System Program.
SystemInstructionDecoder ==
    [program_id   |-> SYSTEM_PROGRAM_ID,
     program_name |-> "System Program",
     width        |-> 4,
     table        |-> <<
        [discriminator |-> <<1, 0, 0, 0>>,
         name     |-> "Assign",
         fields   |-> <<[name |-> "owner", kind |-> "[u8; 32]"]>>,
         accounts |-> <<"account">>],
        [discriminator |-> <<2, 0, 0, 0>>,
         name     |-> "Transfer",
         fields   |-> <<[name |-> "lamports", kind |-> "u64"]>>,
         accounts |-> <<"from", "to">>],
        [discriminator |-> <<8, 0, 0, 0>>,
         name     |-> "Allocate",
         fields   |-> <<[name |-> "space", kind |-> "u64"]>>,
         accounts |-> <<"account">>] >>]

\* A decoder with 1-byte discriminators: the Compute Budget program.
ComputeBudgetInstructionDecoder ==
    [program_id   |-> COMPUTE_BUDGET_ID,
     program_name |-> "Compute Budget",
     width        |-> 1,
     table        |-> <<
        [discriminator |-> <<2>>,
         name     |-> "SetComputeUnitLimit",
         fields   |-> <<[name |-> "units", kind |-> "u32"]>>,
         accounts |-> <<>>],
        [discriminator |-> <<3>>,
         name     |-> "SetComputeUnitPrice",
         fields   |-> <<[name |-> "micro_lamports", kind |-> "u64"]>>,
         accounts |-> <<>>] >>]

\* The table entry of an instruction name.
EntryOf(decoder, name) ==
    decoder.table[CHOOSE i \in 1..Len(decoder.table) :
                      decoder.table[i].name = name]

\* The table entries a discriminator selects: the position of the entry whose
\* discriminator the leading bytes are, 0 when there is none.
lookup_first_byte(table, discriminator) ==
    LET hits == {i \in 1..Len(table) :
                    table[i].discriminator[1] = discriminator[1]}
    IN  IF hits = {} THEN 0 ELSE CHOOSE i \in hits : \A j \in hits : i <= j
lookup(table, discriminator) ==
    LET hits == {i \in 1..Len(table) : table[i].discriminator = discriminator}
    IN  IF hits = {} THEN 0 ELSE CHOOSE i \in hits : \A j \in hits : i <= j

\* The account names of a decoded instruction: one for every account
\* supplied, the expected names position by position, padded when the
\* accounts are more than the names and truncated when they are fewer.
account_names_declared(names, accounts) == names
account_names_for(names, accounts) ==
    [i \in 1..Len(accounts) |-> IF i <= Len(names) THEN names[i] ELSE ""]

\* The dispatch on a table entry: the field decode procedure applied to the
\* bytes after the discriminator, and the accounts zipped with the names.
\* A recognized discriminator decodes to its instruction also when the
\* arguments cannot be read: test_discriminators_match_anchor decodes the
\* bare discriminators of set and configure to Some with the name. The
\* instruction then has no fields.
decode_entry_or_none(decoder, hit, data, accounts) ==
    IF hit = 0 THEN None
    ELSE LET entry  == decoder.table[hit]
             fields == read_fields(entry.fields, skip(data, decoder.width),
                                   Len(entry.fields))
         IN  IF fields = None THEN None
             ELSE Some([name          |-> entry.name,
                        account_names |-> account_names_for(entry.accounts,
                                                            accounts),
                        fields        |-> unwrap(fields)])
decode_entry(decoder, hit, data, accounts) ==
    IF hit = 0 THEN None
    ELSE LET entry  == decoder.table[hit]
             fields == read_fields(entry.fields, skip(data, decoder.width),
                                   Len(entry.fields))
         IN  Some([name          |-> entry.name,
                   account_names |-> account_names_for(entry.accounts,
                                                       accounts),
                   fields        |-> unwrap_or(fields, <<>>)])

\* The entry of the table whose discriminator starts with the given bytes.
lookup_prefix(table, prefix) ==
    LET hits == {i \in 1..Len(table) :
                    take(table[i].discriminator, Len(prefix)) = prefix}
    IN  IF hits = {} THEN 0 ELSE CHOOSE i \in hits : \A j \in hits : i <= j

\* InstructionDecoder::decode(data, accounts): None, or the decoded
\* instruction in Some.
decode_prefix_match(decoder, data, accounts) ==
    IF Len(data) < decoder.width
    THEN decode_entry(decoder, lookup_prefix(decoder.table, data), data,
                      accounts)
    ELSE decode_entry(decoder,
                      lookup(decoder.table, take(data, decoder.width)), data,
                      accounts)
decode(decoder, data, accounts) ==
    IF Len(data) < decoder.width THEN None
    ELSE decode_entry(decoder,
                      lookup(decoder.table, take(data, decoder.width)), data,
                      accounts)

\* -------------------------------------------------------- decoder registry

\* DecoderRegistry::register(decoder)
register_keep_first(decoders, decoder) ==
    IF decoder.program_id \in DOMAIN decoders THEN decoders
    ELSE insert(decoders, decoder.program_id, decoder)
register(decoders, decoder) == insert(decoders, decoder.program_id, decoder)

\* DecoderRegistry::has_decoder(program_id)
has_decoder(decoders, program_id) == program_id \in DOMAIN decoders

\* DecoderRegistry::get_decoder(program_id)
resolve(decoders, program_id) == get(decoders, program_id)

\* ------------------------------------------------- the transaction's log

\* account_keys.get(idx).copied().unwrap_or_default(); idx counts from 0.
key_or_last(keys, idx) ==
    IF keys = <<>> THEN Pubkey_default
    ELSE unwrap_or(get(keys, idx + 1), keys[Len(keys)])
key_or_default(keys, idx) == unwrap_or(get(keys, idx + 1), Pubkey_default)

\* VersionedMessage::is_signer(idx)
is_signer(message, idx) == idx < message.header.num_required_signatures

\* VersionedMessage::is_maybe_writable(idx, None)
is_maybe_writable(message, idx) ==
    LET header == message.header
    IN  \/ idx < header.num_required_signatures
                  - header.num_readonly_signed_accounts
        \/ /\ idx >= header.num_required_signatures
           /\ idx < Len(message.account_keys)
                         - header.num_readonly_unsigned_accounts

\* resolve_accounts(account_indices, account_keys, message)
resolve_accounts(account_indices, keys, message) ==
    [i \in 1..Len(account_indices) |->
        [pubkey      |-> key_or_default(keys, account_indices[i]),
         is_signer   |-> is_signer(message, account_indices[i]),
         is_writable |-> is_maybe_writable(message, account_indices[i])]]

\* get_program_name(program_id, registry): the name of the decoder of the
\* program, or the fallback name.
get_program_name_of_any(program_id, decoders) ==
    IF decoders = <<>> THEN "Unknown Program"
    ELSE decoders[CHOOSE id \in DOMAIN decoders : TRUE].program_name
get_program_name(program_id, decoders) ==
    IF has_decoder(decoders, program_id)
    THEN unwrap(resolve(decoders, program_id)).program_name
    ELSE "Unknown Program"

\* EnhancedInstructionLog::decode(config): the decoder of the program, when
\* the registry has one, decodes the data with the resolved accounts.
ix_log_decode(program_id, data, accounts, config) ==
    LET decoder == resolve(config.decoder_registry, program_id)
    IN  IF decoder = None THEN None
        ELSE decode(unwrap(decoder), data, accounts)

\* What decode_transaction_inner and parse_inner_instructions record of a
\* compiled instruction besides its index, depth and inner instructions.
ix_log_fields_without_data(instruction, message, config) ==
    LET keys       == message.account_keys
        program_id == key_or_default(keys, instruction.program_id_index)
        accounts   == resolve_accounts(instruction.accounts, keys, message)
    IN  [program_id          |-> program_id,
         program_name        |-> get_program_name(program_id,
                                                  config.decoder_registry),
         data                |-> <<>>,
         accounts            |-> accounts,
         decoded_instruction |-> ix_log_decode(program_id, instruction.data,
                                               accounts, config)]
ix_log_fields(instruction, message, config) ==
    LET keys       == message.account_keys
        program_id == key_or_default(keys, instruction.program_id_index)
        accounts   == resolve_accounts(instruction.accounts, keys, message)
    IN  [program_id          |-> program_id,
         program_name        |-> get_program_name(program_id,
                                                  config.decoder_registry),
         data                |-> instruction.data,
         accounts            |-> accounts,
         decoded_instruction |-> ix_log_decode(program_id, instruction.data,
                                               accounts, config)]

\* The stack heights of a list of inner instructions.
stack_heights(inner) == [k \in 1..Len(inner) |-> inner[k].stack_height]

\* One iteration of the loop of decode_transaction_inner: the entry of the
\* top-level instruction ix_index (counted from 0) with the tree of its
\* inner instructions. Record Top is the entry, record k its k-th inner
\* instruction.
top_level_ix_log_from_one(tx, meta, config, ix_index) ==
    (Top :> (new_ix_log(ix_index + 1, 0)
                 @@ ix_log_fields(tx.message.instructions[ix_index + 1],
                                  tx.message, config)))
top_level_ix_log_first_group(tx, meta, config, ix_index) ==
    LET top   == (Top :> new_ix_log(ix_index, 0))
        inner == get(meta.inner_instructions, 1)
        tree  == IF inner # None
                 THEN parse_inner_instructions(stack_heights(unwrap(inner)),
                                               Len(unwrap(inner)), top)
                 ELSE top
    IN  [n \in DOMAIN tree |->
            tree[n] @@ ix_log_fields(
                           IF n = Top
                           THEN tx.message.instructions[ix_index + 1]
                           ELSE unwrap(inner)[n].instruction,
                           tx.message, config)]
top_level_ix_log(tx, meta, config, ix_index) ==
    LET top   == (Top :> new_ix_log(ix_index, 0))
        inner == get(meta.inner_instructions, ix_index + 1)
        tree  == IF inner # None
                 THEN parse_inner_instructions(stack_heights(unwrap(inner)),
                                               Len(unwrap(inner)), top)
                 ELSE top
    IN  [n \in DOMAIN tree |->
            tree[n] @@ ix_log_fields(
                           IF n = Top
                           THEN tx.message.instructions[ix_index + 1]
                           ELSE unwrap(inner)[n].instruction,
                           tx.message, config)]

\* The loop of decode_transaction_inner over the first n instructions.
RECURSIVE top_level_ix_logs_abort(_, _, _, _)
top_level_ix_logs_abort(tx, meta, config, n) ==
    IF n = 0 THEN <<>>
    ELSE LET before == top_level_ix_logs_abort(tx, meta, config, n - 1)
             ix_log == top_level_ix_log(tx, meta, config, n - 1)
         IN  IF Len(before) < n - 1
                \/ \E k \in DOMAIN ix_log :
                       ix_log[k].decoded_instruction = None
             THEN before
             ELSE push(before, ix_log)
RECURSIVE top_level_ix_logs(_, _, _, _)
top_level_ix_logs(tx, meta, config, n) ==
    IF n = 0 THEN <<>>
    ELSE push(top_level_ix_logs(tx, meta, config, n - 1),
              top_level_ix_log(tx, meta, config, n - 1))

\* format!("{err:?}") of the error of a failed transaction.
debug(err) ==
    IF err.variant = "InstructionError"
    THEN "InstructionError(" \o to_string(<<err.index>>) \o ", Custom("
             \o to_string(<<err.custom>>) \o "))"
    ELSE err.variant

\* TransactionMetadata::pretty_logs: the log lines, one per line.
RECURSIVE pretty_logs(_)
pretty_logs(logs) ==
    IF logs = <<>> THEN ""
    ELSE IF Len(logs) = 1 THEN Head(logs)
    ELSE Head(logs) \o "\n" \o pretty_logs(Tail(logs))

\* Signature::default()
Signature_default == "default"

\* decode_transaction_inner(tx, result, config) for a whole transaction.
decode_transaction_log_stop_on_err(tx, res, config) ==
    LET status == IF res.kind = "Ok" THEN [kind |-> "Success"]
                  ELSE [kind |-> "Failed", reason |-> debug(res.err)]
        ix_logs == IF res.kind = "Ok"
                   THEN top_level_ix_logs(tx, res.meta, config,
                                          Len(tx.message.instructions))
                   ELSE <<>>
    IN  [EnhancedTransactionLog_new EXCEPT
            !.status = status, !.instructions = ix_logs]
        @@ [compute_used        |-> res.meta.compute_units_consumed,
            fee                 |-> Len(tx.signatures) * 5000,
            program_logs_pretty |-> pretty_logs(res.meta.logs),
            signature           |-> unwrap_or(get(tx.signatures, 1),
                                              Signature_default)]
decode_transaction_log(tx, res, config) ==
    LET status == IF res.kind = "Ok" THEN [kind |-> "Success"]
                  ELSE [kind |-> "Failed", reason |-> debug(res.err)]
    IN  [EnhancedTransactionLog_new EXCEPT
            !.status = status,
            !.instructions = top_level_ix_logs(tx, res.meta, config,
                                               Len(tx.message.instructions))]
        @@ [compute_used        |-> res.meta.compute_units_consumed,
            fee                 |-> Len(tx.signatures) * 5000,
            program_logs_pretty |-> pretty_logs(res.meta.logs),
            signature           |-> unwrap_or(get(tx.signatures, 1),
                                              Signature_default)]

\* ---------------------------------------------------------- the projection

\* The base-58 alphabet of Pubkey::to_string.
Base58 ==
    <<"1", "2", "3", "4", "5", "6", "7", "8", "9", "A", "B", "C", "D", "E",
      "F", "G", "H", "J", "K", "L", "M", "N", "P", "Q", "R", "S", "T", "U",
      "V", "W", "X", "Y", "Z", "a", "b", "c", "d", "e", "f", "g", "h", "i",
      "j", "k", "m", "n", "o", "p", "q", "r", "s", "t", "u", "v", "w", "x",
      "y", "z">>

\* The 32 bytes of a key, the most significant first; the keys of the model
\* are the numbers their bytes stand for, all below 256.
pubkey_bytes(pubkey) == [i \in 1..32 |-> IF i = 32 THEN pubkey ELSE 0]

\* The number of leading zero bytes.
RECURSIVE leading_zeros(_)
leading_zeros(bytes) ==
    IF bytes = <<>> \/ Head(bytes) # 0 THEN 0
    ELSE 1 + leading_zeros(Tail(bytes))

\* The characters of base-58 digits, the most significant first.
RECURSIVE base58_to_string(_)
base58_to_string(digits) ==
    IF digits = <<>> THEN ""
    ELSE Base58[Head(digits) + 1] \o base58_to_string(Tail(digits))

\* Pubkey::to_string: one "1" for every leading zero byte, then the number
\* in base 58.
Pubkey_to_string(pubkey) ==
    LET bytes == pubkey_bytes(pubkey)
    IN  base58_to_string([i \in 1..leading_zeros(bytes) |-> 0])
            \o base58_to_string(Reverse(to_base(bytes, 256, Len(Base58))))

\* TransactionStatus::text
text(status) ==
    IF status.kind = "Failed" THEN "Failed: " \o status.reason
    ELSE status.kind

\* The instruction_name field of an entry, which decode sets to the name of
\* the decoded instruction.
instruction_name(ix) ==
    IF ix.decoded_instruction = None THEN None
    ELSE Some(unwrap(ix.decoded_instruction).name)

\* instruction_to_snapshot(ix) for record n of a tree.
RECURSIVE instruction_to_snapshot(_, _)
instruction_to_snapshot(tree, n) ==
    LET ix == tree[n]
        decoded_fields ==
            IF ix.decoded_instruction = None THEN None
            ELSE Some([f \in DOMAIN unwrap(ix.decoded_instruction).fields |->
                         [name  |-> unwrap(ix.decoded_instruction).fields[f].name,
                          value |-> unwrap(ix.decoded_instruction).fields[f].value]])
        accounts ==
            [a \in DOMAIN ix.accounts |->
                [pubkey      |-> Pubkey_to_string(ix.accounts[a].pubkey),
                 is_signer   |-> ix.accounts[a].is_signer,
                 is_writable |-> ix.accounts[a].is_writable]]
    IN  [program_id         |-> Pubkey_to_string(ix.program_id),
         program_name       |-> ix.program_name,
         instruction_name   |-> instruction_name(ix),
         accounts           |-> accounts,
         decoded_fields     |-> decoded_fields,
         inner_instructions |->
             [k \in DOMAIN ix.inner_instructions |->
                 instruction_to_snapshot(tree, ix.inner_instructions[k])]]

\* transaction_log_to_snapshot(log)
transaction_log_to_snapshot(l) ==
    [signature    |-> l.signature,
     status       |-> text(l.status),
     fee          |-> l.fee,
     compute_used |-> l.compute_used,
     instructions |-> [i \in DOMAIN l.instructions |->
                          instruction_to_snapshot(l.instructions[i], Top)]]

\* ------------------------------------------------------------------ inputs

StackHeights == 0..MaxHeight
Traces == UNION {[1..n -> StackHeights] : n \in 0..MaxLen}

\* The account keys of a transaction, the states an account can be in, and the
\* state maps a caller can hand to decode_transaction.
AccountKeys == 1..MaxKeys
AccountState == (0..1) \X (0..1) \X {Pubkey_default, 1}
AccountStates == UNION {[keys -> AccountState] : keys \in SUBSET AccountKeys}
OptionAccountStates == {None} \cup {Some(m) : m \in AccountStates}

\* The values of the account-state variables while the trace is decoded.
DiffIdle ==
    /\ result = "Ok"
    /\ pre_states = None
    /\ post_states = None
    /\ log = None

\* The live accounts a LiteSVM can hold: lamports, data and owner of every
\* account that exists.
Account == [lamports : 0..1, data : {<<>>, <<0>>}, owner : {Pubkey_default, 1}]
LiveAccounts == UNION {[keys -> Account] : keys \in SUBSET AccountKeys}
\* The static account keys of a transaction.
StaticAccountKeys == UNION {[1..n -> AccountKeys] : n \in 0..MaxKeys}

\* The values of the trace variables while no trace is decoded.
TraceIdle ==
    /\ inner_ixs = None
    /\ inner_idx = 0
    /\ parent = <<>>
    /\ instructions = <<>>

\* The values of the capture variables while nothing is captured.
CaptureIdle ==
    /\ svm = <<>>
    /\ account_keys = <<>>
    /\ states = None

\* The values of the decoder variables while no decoder is called.
DecodeIdle ==
    /\ dec = None
    /\ variant = 0
    /\ args = <<>>
    /\ raw = <<>>
    /\ metas = <<>>
    /\ decoded = None

\* DecoderRegistry::new(), before any register call.
RegistryIdle ==
    /\ registry = <<>>
    /\ registered = <<>>

\* The values of the transaction variables while none is decoded.
TxIdle ==
    /\ transaction = None
    /\ execution = None
    /\ tx_log = None

\* The values of the variables of strip_ansi_codes while it is not called.
StripIdle ==
    /\ content = <<>>
    /\ stripped = None

\* The values of the variables of the deserialization while none is done.
BorshIdle ==
    /\ slice = <<>>
    /\ deserialized = None

\* The values of the variables of the logger while nothing is logged.
LoggerIdle ==
    /\ counter = 0
    /\ LOG_INIT = "new"
    /\ LOG_INIT_DONE = FALSE
    /\ file = <<>>
    /\ callers = <<>>
    /\ tx_numbers = <<>>
    /\ created = 0
    /\ appended = <<>>

IoIdle == StripIdle /\ BorshIdle /\ LoggerIdle

\* The values of the variables of the other specifications.
ExtIdle == CaptureIdle /\ DecodeIdle /\ RegistryIdle /\ TxIdle /\ IoIdle

\* The decoders, one of every discriminator width.
Decoders == {CounterInstructionDecoder, SystemInstructionDecoder,
             ComputeBudgetInstructionDecoder}

\* The largest value of a u64 and of a u32, in decimal.
U64_MAX == <<1, 8, 4, 4, 6, 7, 4, 4, 0, 7, 3, 7, 0, 9, 5, 5, 1, 6, 1, 5>>
U32_MAX == <<4, 2, 9, 4, 9, 6, 7, 2, 9, 5>>
U16_MAX == <<6, 5, 5, 3, 5>>

\* The argument values payloads are encoded from: integers in decimal, a
\* bool as 0 or 1, a byte array as its bytes.
ArgValues(kind) ==
    CASE kind = "u64" -> {<<0>>, <<4, 2>>, U64_MAX}
      [] kind = "u32" -> {<<0>>, <<2, 5, 6>>, U32_MAX}
      [] kind = "u16" -> {<<7>>, U16_MAX}
      [] kind = "bool" -> {<<0>>, <<1>>}
      [] kind = "[u8; 32]" ->
             {[i \in 1..32 |-> 0],
              <<104, 101, 108, 108, 111, 95, 119, 111, 114, 108, 100>>
                  \o [i \in 1..21 |-> 0]}

\* The argument lists of the first n fields of a layout.
RECURSIVE ArgsOf(_, _)
ArgsOf(layout, n) ==
    IF n = 0 THEN {<<>>}
    ELSE {Append(a, v) : a \in ArgsOf(layout, n - 1),
                         v \in ArgValues(layout[n].kind)}

\* The encoding of an argument value: little-endian integers, a bool as one
\* byte, a byte array as it is.
encode_arg(kind, value) ==
    IF kind = "[u8; 32]" THEN value ELSE to_le_bytes(value, size_of(kind))

\* The encoding of the first n arguments.
RECURSIVE encode_args(_, _, _)
encode_args(layout, values, n) ==
    IF n = 0 THEN <<>>
    ELSE encode_args(layout, values, n - 1)
             \o encode_arg(layout[n].kind, values[n])

\* The payload of an instruction: the discriminator and the arguments.
encode(entry, values) ==
    entry.discriminator \o encode_args(entry.fields, values, Len(entry.fields))

\* The payloads decode is called on: the payload of an instruction, every
\* prefix of it, and the payload with one byte of its discriminator changed.
Payloads(entry, values) ==
    LET full == encode(entry, values)
    IN  {take(full, n) : n \in 0..Len(full)}
        \cup UNION {{[full EXCEPT ![k] = (full[k] + 1) % 256],
                      [full EXCEPT ![k] = 255]} :
                        k \in 1..Len(entry.discriminator)}

\* make_accounts: n accounts, writable and not signers.
make_accounts(n) ==
    [i \in 1..n |-> [pubkey |-> i, is_signer |-> FALSE, is_writable |-> TRUE]]

\* The decoders handed to register: the three decoders, and for each of
\* their program ids a second decoder with another name.
Registerable ==
    Decoders \cup {[d EXCEPT !.program_name = "Replacement"] : d \in Decoders}

\* A program id no decoder has.
UNKNOWN_PROGRAM_ID == 4

\* The program ids has_decoder and resolve are asked about.
ProgramIds == {d.program_id : d \in Decoders} \cup {UNKNOWN_PROGRAM_ID}

\* The message of the transactions: the payer signs and is writable, then a
\* writable account, then the counter program and a program without decoder,
\* both read-only.
SampleHeader ==
    [num_required_signatures        |-> 1,
     num_readonly_signed_accounts   |-> 0,
     num_readonly_unsigned_accounts |-> 2]
SampleKeys == <<10, 11, COUNTER_PROGRAM_ID, UNKNOWN_PROGRAM_ID>>

\* The payloads of the compiled instructions: Set with the value 42, the
\* same cut after the discriminator and in the middle of the value, and a
\* payload of no discriminator.
SetEntry == EntryOf(CounterInstructionDecoder, "Set")
SamplePayloads ==
    {encode(SetEntry, <<(<<4, 2>>)>>),
     SetEntry.discriminator,
     SetEntry.discriminator \o <<42, 0, 0>>,
     [i \in 1..8 |-> 255]}

\* The compiled instructions: the program is the counter program, the
\* program without decoder, or an index past the account keys; the accounts
\* are in range or not. The two cut payloads, which differ from the others
\* only in how the counter decoder reads them, go to the counter program.
CompiledInstructions ==
    {ix \in [program_id_index : {2, 3, 7},
             accounts         : {<<1, 0>>, <<1, 9>>},
             data             : SamplePayloads] :
        \/ ix.program_id_index = 2
        \/ ix.data \in {encode(SetEntry, <<(<<4, 2>>)>>), [i \in 1..8 |-> 255]}}

\* The inner instructions of two top-level instructions.
InnerOfFirst ==
    <<[instruction  |-> [program_id_index |-> 3, accounts |-> <<0>>,
                         data |-> <<1, 2, 3>>],
       stack_height |-> 2],
      [instruction  |-> [program_id_index |-> 2, accounts |-> <<1, 0>>,
                         data |-> SetEntry.discriminator],
       stack_height |-> 3],
      [instruction  |-> [program_id_index |-> 2, accounts |-> <<1, 0>>,
                         data |-> encode(SetEntry, <<(<<4, 2>>)>>)],
       stack_height |-> 2]>>
InnerOfSecond ==
    <<[instruction  |-> [program_id_index |-> 7, accounts |-> <<0, 1>>,
                         data |-> <<2, 0, 0, 0>> \o to_le_bytes(<<7>>, 8)],
       stack_height |-> 2]>>

\* The metadata of an execution.
Metadata ==
    [compute_units_consumed : {150},
     logs                   : {<<"Program log: set", "Program log: done">>},
     inner_instructions     : {<<>>, <<(<<>>), InnerOfSecond>>,
                               <<InnerOfFirst, InnerOfSecond>>}]

\* The errors of a failed transaction.
TransactionErrors ==
    {[variant |-> "AccountNotFound"],
     [variant |-> "InstructionError", index |-> 1, custom |-> 0]}

\* The TransactionResults.
TransactionResults ==
    {[kind |-> "Ok", meta |-> m] : m \in Metadata}
        \cup {[kind |-> "Err", err |-> e, meta |-> m] :
                  e \in TransactionErrors, m \in Metadata}

\* The transactions: one signature, up to MaxInstructions instructions.
Transactions ==
    {[signatures |-> <<"signature">>,
      message    |-> [header       |-> SampleHeader,
                      account_keys |-> SampleKeys,
                      instructions |-> ixs]] :
        ixs \in UNION {[1..n -> CompiledInstructions] :
                          n \in 0..MaxInstructions}}

\* The registry of the configuration: the decoders of the System Program and
\* of the Compute Budget program, and the counter program's registered last.
DefaultDecoders ==
    <<SystemInstructionDecoder, ComputeBudgetInstructionDecoder,
      CounterInstructionDecoder>>
RECURSIVE register_all(_, _)
register_all(list, n) ==
    IF n = 0 THEN <<>> ELSE register(register_all(list, n - 1), list[n])

\* The EnhancedLoggingConfig of a registry.
config_of(decoders) == [decoder_registry |-> decoders]

\* ------------------------------------------ Spec: decode of one instruction

Init ==
    /\ pc = "start"
    /\ inner_ixs \in {None} \cup {Some(t) : t \in Traces}
    /\ inner_idx = 0
    /\ parent = <<>>
    /\ instructions = <<>>
    /\ DiffIdle
    /\ ExtIdle

\* decode_transaction_inner: the top-level entry is built, with depth 0; its
\* trace, when the metadata has one, is parsed next.
BuildTopLevel ==
    /\ pc = "start"
    /\ parent' = (Top :> new_ix_log(Len(instructions), 0))
    /\ pc' = IF inner_ixs # None THEN "inner" ELSE "push"
    /\ UNCHANGED <<inner_ixs, inner_idx, instructions>>
    /\ UNCHANGED diffVars
    /\ UNCHANGED extVars

\* parse_inner_instructions: one iteration of the loop over the records.
ParseInner ==
    /\ pc = "inner"
    /\ inner_idx < Len(unwrap(inner_ixs))
    /\ parent' = parse_inner_instruction(parent, inner_idx + 1,
                                         unwrap(inner_ixs)[inner_idx + 1])
    /\ inner_idx' = inner_idx + 1
    /\ UNCHANGED <<pc, inner_ixs, instructions>>
    /\ UNCHANGED diffVars
    /\ UNCHANGED extVars

\* parse_inner_instructions returns once the loop is over.
ParseDone ==
    /\ pc = "inner"
    /\ inner_idx = Len(unwrap(inner_ixs))
    /\ pc' = "push"
    /\ UNCHANGED <<inner_ixs, inner_idx, parent, instructions>>
    /\ UNCHANGED diffVars
    /\ UNCHANGED extVars

\* log.instructions.push(ix_log)
PushTopLevel ==
    /\ pc = "push"
    /\ instructions' = push(instructions, parent)
    /\ pc' = "done"
    /\ UNCHANGED <<inner_ixs, inner_idx, parent>>
    /\ UNCHANGED diffVars
    /\ UNCHANGED extVars

Next == BuildTopLevel \/ ParseInner \/ ParseDone \/ PushTopLevel

Spec == Init /\ [][Next]_vars

\* ----------------------------------- SpecDiff: decode_transaction as a whole

\* A transaction of one top-level instruction with the inner-instruction trace
\* [2, 3, 2], its result, and the state maps the caller supplies or not.
InitDiff ==
    /\ pc = "start"
    /\ inner_ixs = Some(<<2, 3, 2>>)
    /\ inner_idx = 0
    /\ parent = <<>>
    /\ instructions = <<>>
    /\ result \in {"Ok", "Err"}
    /\ pre_states \in OptionAccountStates
    /\ post_states \in OptionAccountStates
    /\ log = None
    /\ ExtIdle

\* One call of decode_transaction.
DecodeTransaction ==
    /\ pc = "start"
    /\ log' = Some(decode_transaction(inner_ixs, result, pre_states, post_states))
    /\ pc' = "done"
    /\ UNCHANGED <<inner_ixs, inner_idx, parent, instructions, result,
                   pre_states, post_states>>
    /\ UNCHANGED extVars

NextDiff == DecodeTransaction

SpecDiff == InitDiff /\ [][NextDiff]_vars

\* ------------------------------------- SpecCapture: capture_account_states

InitCapture ==
    /\ pc = "start"
    /\ TraceIdle
    /\ DiffIdle
    /\ IoIdle
    /\ svm \in LiveAccounts
    /\ account_keys \in StaticAccountKeys
    /\ states = None
    /\ DecodeIdle
    /\ RegistryIdle
    /\ TxIdle

\* One call of capture_account_states.
CaptureAccountStates ==
    /\ pc = "start"
    /\ states' = Some(capture_account_states(svm, account_keys))
    /\ pc' = "done"
    /\ UNCHANGED <<inner_ixs, inner_idx, parent, instructions>>
    /\ UNCHANGED diffVars
    /\ UNCHANGED ioVars
    /\ UNCHANGED <<svm, account_keys>>
    /\ UNCHANGED decodeVars
    /\ UNCHANGED registryVars
    /\ UNCHANGED txVars

NextCapture == CaptureAccountStates

SpecCapture == InitCapture /\ [][NextCapture]_vars

\* -------------------------------------------- SpecDecode: one decode call

InitDecode ==
    /\ pc = "start"
    /\ TraceIdle
    /\ DiffIdle
    /\ IoIdle
    /\ CaptureIdle
    /\ \E d \in Decoders : \E v \in 1..Len(d.table) :
       \E a \in ArgsOf(d.table[v].fields, Len(d.table[v].fields)) :
           /\ dec = d
           /\ variant = v
           /\ args = a
           /\ raw \in Payloads(d.table[v], a)
    /\ metas \in {make_accounts(n) : n \in 0..MaxAccounts}
    /\ decoded = None
    /\ RegistryIdle
    /\ TxIdle

\* One call of decode on the decoder, with the payload and the accounts.
Decode ==
    /\ pc = "start"
    /\ decoded' = Some(decode(dec, raw, metas))
    /\ pc' = "done"
    /\ UNCHANGED <<inner_ixs, inner_idx, parent, instructions>>
    /\ UNCHANGED diffVars
    /\ UNCHANGED ioVars
    /\ UNCHANGED captureVars
    /\ UNCHANGED <<dec, variant, args, raw, metas>>
    /\ UNCHANGED registryVars
    /\ UNCHANGED txVars

NextDecode == Decode

SpecDecode == InitDecode /\ [][NextDecode]_vars

\* ------------------------------------------- SpecRegistry: register calls

InitRegistry ==
    /\ pc = "registry"
    /\ TraceIdle
    /\ DiffIdle
    /\ IoIdle
    /\ CaptureIdle
    /\ DecodeIdle
    /\ RegistryIdle
    /\ TxIdle

\* registry.register(decoder)
Register ==
    /\ pc = "registry"
    /\ Len(registered) < MaxRegistrations
    /\ \E decoder \in Registerable :
           /\ registry' = register(registry, decoder)
           /\ registered' = Append(registered, decoder)
    /\ UNCHANGED <<pc, inner_ixs, inner_idx, parent, instructions>>
    /\ UNCHANGED diffVars
    /\ UNCHANGED ioVars
    /\ UNCHANGED captureVars
    /\ UNCHANGED decodeVars
    /\ UNCHANGED txVars

NextRegistry == Register

SpecRegistry == InitRegistry /\ [][NextRegistry]_vars

\* ------------------------------------- SpecTx: decode of a whole transaction

InitTx ==
    /\ pc = "start"
    /\ TraceIdle
    /\ DiffIdle
    /\ IoIdle
    /\ CaptureIdle
    /\ DecodeIdle
    /\ registry = register_all(DefaultDecoders, Len(DefaultDecoders))
    /\ registered = DefaultDecoders
    /\ transaction \in {Some(t) : t \in Transactions}
    /\ execution \in {Some(r) : r \in TransactionResults}
    /\ tx_log = None

\* One call of decode_transaction_inner.
DecodeTransactionInner ==
    /\ pc = "start"
    /\ tx_log' = Some(decode_transaction_log(unwrap(transaction),
                                             unwrap(execution),
                                             config_of(registry)))
    /\ pc' = "done"
    /\ UNCHANGED <<inner_ixs, inner_idx, parent, instructions>>
    /\ UNCHANGED diffVars
    /\ UNCHANGED ioVars
    /\ UNCHANGED captureVars
    /\ UNCHANGED decodeVars
    /\ UNCHANGED registryVars
    /\ UNCHANGED <<transaction, execution>>

NextTx == DecodeTransactionInner

SpecTx == InitTx /\ [][NextTx]_vars

\* -------------------------------------------------- the reconstructed tree

\* The records processed so far, as their stack heights.
Processed ==
    IF inner_ixs = None THEN <<>> ELSE SubSeq(unwrap(inner_ixs), 1, inner_idx)

Built == pc \in {"inner", "push", "done"}

Range(list) == {list[i] : i \in 1..Len(list)}

Max(S) == CHOOSE x \in S : \A y \in S : y <= x

\* Every record number met below `list`, an entry before the entries below it.
RECURSIVE Below(_, _)
Below(tree, list) ==
    IF list = <<>> THEN <<>>
    ELSE <<list[1]>> \o Below(tree, tree[list[1]].inner_instructions)
                     \o Below(tree, Tail(list))

\* The entries whose inner_instructions holds record k.
Owners(k) == {n \in DOMAIN parent : k \in Range(parent[n].inner_instructions)}

\* The records before k whose depth is one less than that of record k.
Callers(k) == {j \in 1..(k - 1) : parent[j].depth = parent[k].depth - 1}

\* First record at stack height 2, every stack height >= 2 and at most one
\* more than that of the record before.
WellFormed(t) ==
    /\ Len(t) > 0 => t[1] = 2
    /\ \A i \in 1..Len(t) : t[i] >= 2
    /\ \A i \in 2..Len(t) : t[i] <= t[i - 1] + 1

\* The caller of record k of a well-formed trace t.
TrueCaller(t, k) ==
    IF t[k] = 2 THEN Top
    ELSE Max({j \in 1..(k - 1) : t[j] = t[k] - 1})

IsPrefix(a, b) == Len(a) <= Len(b) /\ SubSeq(b, 1, Len(a)) = a

\* C1: every record of the trace is exactly one node of the tree below the
\* top-level entry: none is dropped, none is duplicated, and the number of
\* nodes below the top-level entry is the number of records processed.
C1_EveryRecordOnce ==
    Built =>
        LET below == Below(parent, parent[Top].inner_instructions)
        IN  /\ Len(below) = inner_idx
            /\ \A k \in 1..inner_idx :
                   Cardinality({i \in 1..Len(below) : below[i] = k}) = 1
            /\ (pc \in {"push", "done"} /\ inner_ixs # None)
                   => inner_idx = Len(unwrap(inner_ixs))

\* A trace with stack heights 0 and 1, a gap and out-of-order values has
\* been parsed to its end.
C1_Witness ==
    /\ pc = "push"
    /\ inner_ixs = Some(<<0, 1, 4, 2, 3>>)
    /\ inner_idx = 5

\* C2: for a well-formed trace, a record at stack height 2 is a direct child
\* of the top-level entry and a record at stack height h > 2 is a child of the
\* nearest preceding record of stack height h - 1, and of no other entry.
C2_TrueCallTree ==
    (Built /\ WellFormed(Processed)) =>
        \A k \in 1..inner_idx : Owners(k) = {TrueCaller(Processed, k)}

\* Stack heights [2, 3, 2]: record 1 and record 3 are the children of the top
\* level, record 2 is the child of record 1.
C2_Witness ==
    /\ pc = "done"
    /\ inner_ixs = Some(<<2, 3, 2>>)
    /\ parent[Top].inner_instructions = <<1, 3>>
    /\ parent[1].inner_instructions = <<2>>
    /\ parent[2].inner_instructions = <<>>
    /\ parent[3].inner_instructions = <<>>

\* C3: a record of depth > 1 for which the tree built so far has a node of
\* depth one less is a child of the one of these nodes that was added last.
C3_MostRecentlyAttached ==
    Built =>
        \A k \in 1..inner_idx :
            (parent[k].depth > 1 /\ Callers(k) # {})
                => Owners(k) = {Max(Callers(k))}

\* C4: a record of depth > 1 for which the tree built so far has no node of
\* depth one less is a direct child of the top-level entry, and the records
\* after it are parsed too.
C4_FallbackToTopLevel ==
    Built =>
        /\ \A k \in 1..inner_idx :
               (parent[k].depth > 1 /\ Callers(k) = {}) => Owners(k) = {Top}
        /\ (pc \in {"push", "done"} /\ inner_ixs # None)
               => inner_idx = Len(unwrap(inner_ixs))

\* A record fell back to the top level and a later record was parsed after it.
C4_Witness ==
    /\ Built
    /\ \E k \in 1..(inner_idx - 1) :
           /\ parent[k].depth > 1
           /\ Callers(k) = {}
           /\ Owners(k) = {Top}

\* Every entry of a children list is one level deeper than the list's owner.
ChildrenOneDeeper ==
    \A n \in DOMAIN parent :
        \A c \in Range(parent[n].inner_instructions) :
            parent[c].depth = parent[n].depth + 1

\* Every record has stack height >= 2, and every record of stack height
\* h > 2 comes after some record of stack height h - 1.
Chained(t) ==
    \A k \in 1..Len(t) :
        /\ t[k] >= 2
        /\ t[k] > 2 => \E j \in 1..(k - 1) : t[j] = t[k] - 1

\* C5 as stated: for every stack-height sequence, top-level entries have depth
\* 0 and every node of a children list is one level deeper than its owner.
C5_DepthIncrements ==
    Built => (parent[Top].depth = 0 /\ ChildrenOneDeeper)

\* C5, amended: top-level entries have depth 0; the nodes of the children
\* lists are one level deeper than their owners exactly for the traces whose
\* records all have stack height >= 2 and whose records of stack height h > 2
\* each come after some record of stack height h - 1.
C5_DepthIncrementsChained ==
    /\ Built => parent[Top].depth = 0
    /\ \A i \in 1..Len(instructions) : instructions[i][Top].depth = 0
    /\ Built => (Chained(Processed) <=> ChildrenOneDeeper)

\* A well-formed trace three levels deep is in the log.
C5_Witness ==
    /\ pc = "done"
    /\ inner_ixs = Some(<<2, 3, 4, 3, 2>>)
    /\ Len(instructions) = 1
    /\ instructions[1][3].depth = 3

\* Children lists hold their records in trace order.
InTraceOrder ==
   \A n \in DOMAIN parent :
       LET list == parent[n].inner_instructions
       IN  \A i, j \in 1..Len(list) : i < j => list[i] < list[j]

\* A step leaves every entry in place and only appends to children lists.
OnlyAppends ==
    \A n \in DOMAIN parent :
        /\ n \in DOMAIN parent'
        /\ parent'[n].depth = parent[n].depth
        /\ IsPrefix(parent[n].inner_instructions, parent'[n].inner_instructions)

\* C6: the children of every node are in execution order, and attaching a
\* record only appends: no step reorders or removes what a list holds.
C6_ExecutionOrder == [](Built => InTraceOrder) /\ [][OnlyAppends]_vars

\* The top-level entry and one of its children both have several children.
C6_Witness ==
    /\ Built
    /\ Len(parent[Top].inner_instructions) >= 2
    /\ \E k \in 1..inner_idx : Len(parent[k].inner_instructions) >= 2

\* ------------------------------------------------------- the account states

Decoded == pc = "done" /\ log # None

BothSupplied == pre_states # None /\ post_states # None

\* The map itself when it was supplied, the empty map when it was not.
Supplied(opt) == Some(unwrap_or(opt, <<>>))

\* The log without its account states.
Rest(l) == [l EXCEPT !.account_states = None]

\* C8: with both maps supplied, decode_transaction returns, and every key of
\* post that pre lacks has a snapshot with lamports_before = 0 and
\* data_len_before = 0 and the other three fields from its post entry.
C8_PostOnlyBeforeZero ==
    (pc = "done" /\ BothSupplied) =>
        /\ log # None
        /\ unwrap(log).account_states # None
        /\ LET pre   == unwrap(pre_states)
               post  == unwrap(post_states)
               snaps == unwrap(unwrap(log).account_states)
           IN  \A key \in (DOMAIN post) \ (DOMAIN pre) :
                   /\ key \in DOMAIN snaps
                   /\ snaps[key] = [lamports_before |-> 0,
                                    lamports_after  |-> post[key][1],
                                    data_len_before |-> 0,
                                    data_len_after  |-> post[key][2],
                                    owner           |-> post[key][3]]

\* A key of post only, with lamports, data and an owner, has its snapshot.
C8_Witness ==
    /\ Decoded
    /\ BothSupplied
    /\ \E key \in (DOMAIN unwrap(post_states)) \ (DOMAIN unwrap(pre_states)) :
           /\ unwrap(post_states)[key] = <<1, 1, 1>>
           /\ key \in DOMAIN unwrap(unwrap(log).account_states)

\* C9: with both maps supplied, the keys of account_states are the keys of pre
\* together with the keys of post, and no other.
C9_KeysAreUnion ==
    (Decoded /\ BothSupplied) =>
        /\ unwrap(log).account_states # None
        /\ DOMAIN unwrap(unwrap(log).account_states)
               = (DOMAIN unwrap(pre_states)) \cup (DOMAIN unwrap(post_states))

\* One key is in pre only, another in post only, and both have a snapshot.
C9_Witness ==
    /\ Decoded
    /\ BothSupplied
    /\ \E a, b \in AccountKeys :
           /\ a \in (DOMAIN unwrap(pre_states)) \ (DOMAIN unwrap(post_states))
           /\ b \in (DOMAIN unwrap(post_states)) \ (DOMAIN unwrap(pre_states))
           /\ {a, b} \subseteq DOMAIN unwrap(unwrap(log).account_states)

\* C10: account_states is present exactly when both maps were supplied, and
\* what else the log holds is what it holds when both are supplied.
C10_PresentIffBoth ==
    Decoded =>
        /\ unwrap(log).account_states # None <=> BothSupplied
        /\ Rest(unwrap(log))
               = Rest(decode_transaction(inner_ixs, result,
                                         Supplied(pre_states),
                                         Supplied(post_states)))

\* Only the pre-execution map was supplied, and account_states is absent.
C10_Witness ==
    /\ Decoded
    /\ pre_states # None
    /\ DOMAIN unwrap(pre_states) # {}
    /\ post_states = None
    /\ unwrap(log).account_states = None

\* ------------------------------------------------------ the captured states

\* C11: the map capture_account_states returns has exactly the static account
\* keys of the transaction as its keys; a key of an account that exists maps
\* to its lamports, data length and owner, any other key to (0, 0, default).
C11_CaptureEveryKey ==
    (pc = "done" /\ states # None) =>
        LET captured == unwrap(states)
        IN  /\ DOMAIN captured = Range(account_keys)
            /\ \A key \in Range(account_keys) :
                   IF key \in DOMAIN svm
                   THEN captured[key] = <<svm[key].lamports,
                                          Len(svm[key].data), svm[key].owner>>
                   ELSE captured[key] = <<0, 0, Pubkey_default>>

\* A transaction names an account that exists and one that does not, and
\* both are in the map.
C11_Witness ==
    /\ pc = "done"
    /\ states # None
    /\ \E a, b \in Range(account_keys) :
           /\ a \in DOMAIN svm
           /\ svm[a] = [lamports |-> 1, data |-> <<0>>, owner |-> 1]
           /\ b \notin DOMAIN svm
           /\ {a, b} \subseteq DOMAIN unwrap(states)

\* ------------------------------------------------------ the decoded payload

\* decode has returned.
Returned == pc = "done" /\ decoded # None

\* What decode returned: None, or the decoded instruction in Some.
Outcome == unwrap(decoded)

\* The discriminators of a decoder's table.
Discriminators(d) == {d.table[i].discriminator : i \in 1..Len(d.table)}

Min(a, b) == IF a <= b THEN a ELSE b

\* C16: a payload whose leading discriminator-width bytes are not in the
\* decoder's table decodes to None, whatever the accounts; decode returns no
\* other kind of value.
C16_UnknownDiscriminatorIsNone ==
    (Returned /\ Len(raw) >= dec.width
              /\ take(raw, dec.width) \notin Discriminators(dec))
        => Outcome = None

\* A payload of the counter program that has every byte of a known
\* discriminator but one, decoded with three accounts.
C16_Witness ==
    /\ Returned
    /\ dec = CounterInstructionDecoder
    /\ Len(raw) >= 8
    /\ take(raw, 7) = take(dec.table[variant].discriminator, 7)
    /\ take(raw, 8) \notin Discriminators(dec)
    /\ Len(metas) = 3
    /\ Outcome = None

\* C17: a decoder of discriminator width 1, 4 or 8 returns None for every
\* payload shorter than its width, the empty payload and a proper prefix of
\* a known discriminator included.
C17_ShortPayloadIsNone ==
    (Returned /\ dec.width \in {1, 4, 8} /\ Len(raw) < dec.width)
        => Outcome = None

\* The first seven bytes of the discriminator of Initialize, which takes no
\* arguments.
C17_Witness ==
    /\ Returned
    /\ dec.width = 8
    /\ Len(raw) = 7
    /\ raw = take(EntryOf(dec, "Initialize").discriminator, 7)
    /\ Outcome = None

\* C18: a decoded instruction has one account name for every account
\* supplied to decode, the declared names position by position, also when
\* the accounts are fewer or more than the instruction declares.
C18_AccountNamesAligned ==
    (Returned /\ Outcome # None) =>
        LET instruction == unwrap(Outcome)
            declared    == EntryOf(dec, instruction.name).accounts
        IN  /\ Len(instruction.account_names) = Len(metas)
            /\ \A i \in 1..Min(Len(metas), Len(declared)) :
                   instruction.account_names[i] = declared[i]

\* Three accounts supplied to Increment, which declares two.
C18_Witness ==
    /\ Returned
    /\ Outcome # None
    /\ unwrap(Outcome).name = "Increment"
    /\ Len(metas) = 3
    /\ Len(unwrap(Outcome).account_names) = 3

\* C19: the payload made of a known discriminator and the little-endian
\* encoding of the argument values decodes to the instruction of that
\* discriminator, and every integer field's display value is the decimal
\* rendering of the value encoded.
C19_RoundTrip ==
    (Returned /\ Len(raw) = dec.width
                              + offset_of(dec.table[variant].fields,
                                          Len(dec.table[variant].fields))
              /\ raw = encode(dec.table[variant], args)) =>
        LET entry == dec.table[variant]
        IN  /\ Outcome # None
            /\ unwrap(Outcome).name = entry.name
            /\ Len(unwrap(Outcome).fields) = Len(entry.fields)
            /\ \A i \in 1..Len(entry.fields) :
                   /\ unwrap(Outcome).fields[i].name = entry.fields[i].name
                   /\ entry.fields[i].kind \in IntegerKinds =>
                          unwrap(Outcome).fields[i].value
                              = digits_to_string(args[i])

\* Set with the u64 value 42 decodes to the field value "42".
C19_Witness ==
    /\ Returned
    /\ dec = CounterInstructionDecoder
    /\ raw = encode(dec.table[variant], args)
    /\ args = <<(<<4, 2>>)>>
    /\ Outcome # None
    /\ unwrap(Outcome).name = "Set"
    /\ unwrap(Outcome).fields = <<[name |-> "value", value |-> "42"]>>

\* ------------------------------------------------------------ the registry

\* The register calls so far for a program id, by their position.
RegistrationsOf(program_id) ==
    {i \in 1..Len(registered) : registered[i].program_id = program_id}

\* has_decoder is true exactly for the registered ids, and resolve returns
\* the decoder of the last register call for the id.
LastRegistrationWins ==
    \A program_id \in ProgramIds :
        /\ has_decoder(registry, program_id)
               <=> RegistrationsOf(program_id) # {}
        /\ RegistrationsOf(program_id) # {} =>
               resolve(registry, program_id)
                   = Some(registered[Max(RegistrationsOf(program_id))])
        /\ RegistrationsOf(program_id) = {} =>
               resolve(registry, program_id) = None

\* A register call keeps every id that had a decoder and changes the decoder
\* of no id but that of the decoder registered.
OthersUnchanged ==
    \A program_id \in ProgramIds :
        /\ has_decoder(registry, program_id)
               => has_decoder(registry', program_id)
        /\ program_id # registered'[Len(registered')].program_id =>
               resolve(registry', program_id) = resolve(registry, program_id)

\* C15: after any sequence of register calls has_decoder is true exactly for
\* the ids registered so far and never turns false again, resolve returns the
\* decoder registered last for the id, and a registration replaces the
\* decoder of its own id only.
C15_LastRegistrationWins ==
    [](pc = "registry" => LastRegistrationWins) /\ [][OthersUnchanged]_vars

\* The counter decoder was registered, then a second decoder for the same
\* id, with the System Program's decoder registered before both.
C15_Witness ==
    /\ pc = "registry"
    /\ Len(registered) = 3
    /\ registered[1] = SystemInstructionDecoder
    /\ registered[2] = CounterInstructionDecoder
    /\ registered[3].program_id = COUNTER_PROGRAM_ID
    /\ registered[3].program_name = "Replacement"
    /\ resolve(registry, COUNTER_PROGRAM_ID) = Some(registered[3])
    /\ resolve(registry, SYSTEM_PROGRAM_ID) = Some(registered[1])

\* ------------------------------------------------- the transaction's entries

\* decode_transaction_inner has returned.
TxDecoded == pc = "done" /\ tx_log # None

\* The transaction, the metadata of its execution and the log.
Tx == unwrap(transaction)
Meta == unwrap(execution).meta
TxLog == unwrap(tx_log)

\* The inner instructions the metadata has for top-level instruction i
\* (counted from 1).
InnerOf(i) ==
    IF i <= Len(Meta.inner_instructions) THEN Meta.inner_instructions[i]
    ELSE <<>>

\* The instruction entry n of the i-th tree is made from: the compiled
\* instruction for Top, the n-th inner instruction otherwise.
Compiled(i, n) ==
    IF n = Top THEN Tx.message.instructions[i] ELSE InnerOf(i)[n].instruction

\* The entry of record n in the i-th tree of the log.
Entry(i, n) == TxLog.instructions[i][n]

\* The positions of all instructions of the transaction, inner ones included.
Positions ==
    UNION {{<<i, n>> : n \in 0..Len(InnerOf(i))} :
              i \in 1..Len(Tx.message.instructions)}

\* The log has an entry at the position.
Logged(i, n) ==
    /\ i <= Len(TxLog.instructions)
    /\ n \in DOMAIN TxLog.instructions[i]

\* The account key an index stands for.
KeyAt(idx) ==
    IF idx < Len(Tx.message.account_keys)
    THEN Tx.message.account_keys[idx + 1]
    ELSE Pubkey_default

\* The entry has the bytes of its compiled instruction as raw data and one
\* resolved account for every account index.
Recorded(i, n) ==
    /\ Entry(i, n).data = Compiled(i, n).data
    /\ Len(Entry(i, n).accounts) = Len(Compiled(i, n).accounts)
    /\ \A a \in 1..Len(Compiled(i, n).accounts) :
           Entry(i, n).accounts[a].pubkey = KeyAt(Compiled(i, n).accounts[a])

\* C12: the log has one top-level entry for every compiled instruction of the
\* message, in message order; entry i has index i and depth 0, whether the
\* transaction succeeded or failed.
C12_OneEntryPerInstruction ==
    TxDecoded =>
        /\ Len(TxLog.instructions) = Len(Tx.message.instructions)
        /\ \A i \in 1..Len(Tx.message.instructions) :
               /\ Entry(i, Top).index = i - 1
               /\ Entry(i, Top).depth = 0
               /\ Entry(i, Top).data = Tx.message.instructions[i].data
               /\ Entry(i, Top).program_id
                      = KeyAt(Tx.message.instructions[i].program_id_index)

\* A failed transaction of two different instructions, the second of which
\* has inner instructions, has its two entries.
C12_Witness ==
    /\ TxDecoded
    /\ unwrap(execution).kind = "Err"
    /\ Len(Tx.message.instructions) = 2
    /\ Tx.message.instructions[1] # Tx.message.instructions[2]
    /\ Len(InnerOf(2)) > 0
    /\ Len(TxLog.instructions) = 2
    /\ Entry(2, Top).index = 1

\* A log without its status.
WithoutStatus(l) == [field \in (DOMAIN l) \ {"status"} |-> l[field]]

\* The result of the opposite kind with the same metadata.
Opposite(res) ==
    IF res.kind = "Ok"
    THEN [kind |-> "Err", err |-> [variant |-> "AccountNotFound"],
          meta |-> res.meta]
    ELSE [kind |-> "Ok", meta |-> res.meta]

\* C13: the log of a failed transaction differs from the log of the same
\* transaction and metadata reported as a success in the status only, which
\* is Success for Ok and Failed with the rendering of the error for Err;
\* instructions, compute units, fee and program logs are the same.
C13_StatusOnly ==
    TxDecoded =>
        LET other == decode_transaction_log(Tx, Opposite(unwrap(execution)),
                                            config_of(registry))
        IN  /\ WithoutStatus(TxLog) = WithoutStatus(other)
            /\ TxLog.status # other.status
            /\ unwrap(execution).kind = "Ok"
                   => TxLog.status = [kind |-> "Success"]
            /\ unwrap(execution).kind = "Err"
                   => /\ TxLog.status.kind = "Failed"
                      /\ unwrap(execution).err.variant = "AccountNotFound"
                             => TxLog.status.reason = "AccountNotFound"
                      /\ unwrap(execution).err.variant = "InstructionError"
                             => TxLog.status.reason
                                    = "InstructionError(1, Custom(0))"

\* A transaction of two instructions with inner instructions fails in its
\* second instruction: the log has the status Failed, both entries and the
\* compute units, fee and program logs of the metadata.
C13_Witness ==
    /\ TxDecoded
    /\ unwrap(execution).kind = "Err"
    /\ unwrap(execution).err.variant = "InstructionError"
    /\ Len(Meta.inner_instructions) = 2
    /\ TxLog.status = [kind |-> "Failed",
                       reason |-> "InstructionError(1, Custom(0))"]
    /\ Len(TxLog.instructions) = 2
    /\ Len(Entry(1, Top).inner_instructions) = 2
    /\ TxLog.compute_used = 150
    /\ TxLog.fee = 5000
    /\ TxLog.program_logs_pretty = "Program log: set\nProgram log: done"

\* The program id of a compiled instruction has no decoder in the registry.
Unregistered(i, n) ==
    ~has_decoder(registry, KeyAt(Compiled(i, n).program_id_index))

\* C14: an instruction whose program id has no registered decoder still has
\* its entry, with the fallback program name, no decoded instruction, and
\* its raw data and accounts recorded.
C14_UnregisteredStillLogged ==
    TxDecoded =>
        \A p \in Positions :
            Unregistered(p[1], p[2]) =>
                /\ Logged(p[1], p[2])
                /\ Entry(p[1], p[2]).program_name = "Unknown Program"
                /\ Entry(p[1], p[2]).decoded_instruction = None
                /\ Recorded(p[1], p[2])

\* A top-level instruction of the program without decoder carries a payload
\* the counter decoder would decode, and two accounts.
C14_Witness ==
    /\ TxDecoded
    /\ Len(Tx.message.instructions) = 1
    /\ Unregistered(1, Top)
    /\ Compiled(1, Top).data = encode(SetEntry, <<(<<4, 2>>)>>)
    /\ Logged(1, Top)
    /\ Entry(1, Top).program_id = UNKNOWN_PROGRAM_ID
    /\ Entry(1, Top).program_name = "Unknown Program"
    /\ Entry(1, Top).decoded_instruction = None
    /\ Len(Entry(1, Top).accounts) = 2

\* The decoder of the program of a compiled instruction recognizes the
\* discriminator, and the payload ends before the last argument does.
Truncated(i, n) ==
    LET decoder == resolve(registry, KeyAt(Compiled(i, n).program_id_index))
        payload == Compiled(i, n).data
    IN  /\ decoder # None
        /\ Len(payload) >= unwrap(decoder).width
        /\ take(payload, unwrap(decoder).width)
               \in Discriminators(unwrap(decoder))
        /\ LET entry == CHOOSE e \in Range(unwrap(decoder).table) :
                            e.discriminator
                                = take(payload, unwrap(decoder).width)
           IN  Len(payload) < unwrap(decoder).width
                                  + offset_of(entry.fields, Len(entry.fields))

\* C20 as stated: a recognized discriminator with a truncated payload decodes
\* to None, and the entry is emitted with its raw data and accounts.
C20_TruncatedIsNone ==
    TxDecoded =>
        \A p \in Positions :
            Truncated(p[1], p[2]) =>
                /\ Logged(p[1], p[2])
                /\ Entry(p[1], p[2]).decoded_instruction = None
                /\ Recorded(p[1], p[2])

\* C20, amended: a recognized discriminator with a truncated payload still
\* has its entry, with the raw data equal to the compiled bytes and the
\* accounts resolved; the decode result is not None but the instruction of
\* the discriminator when the payload ends right after the discriminator.
C20_TruncatedStillLogged ==
    TxDecoded =>
        \A p \in Positions :
            Truncated(p[1], p[2]) =>
                /\ Logged(p[1], p[2])
                /\ Recorded(p[1], p[2])
                /\ Compiled(p[1], p[2]).data = SetEntry.discriminator =>
                       /\ Entry(p[1], p[2]).decoded_instruction # None
                       /\ unwrap(Entry(p[1], p[2]).decoded_instruction).name
                              = "Set"

\* The counter program's Set with nothing after the discriminator, as a
\* top-level instruction and as an inner instruction two levels down.
C20_Witness ==
    /\ TxDecoded
    /\ Len(Tx.message.instructions) >= 1
    /\ Compiled(1, Top).program_id_index = 2
    /\ Compiled(1, Top).data = SetEntry.discriminator
    /\ Truncated(1, Top)
    /\ Len(InnerOf(1)) = 3
    /\ Truncated(1, 2)
    /\ Entry(1, Top).data = SetEntry.discriminator
    /\ Entry(1, 2).data = SetEntry.discriminator
    /\ Entry(1, 2).depth = 2

\* An instruction the counter decoder decodes: Set with the value 42.
DecodableInstruction ==
    [program_id_index |-> 2, accounts |-> <<1, 0>>,
     data |-> encode(SetEntry, <<(<<4, 2>>)>>)]

\* The log of the transaction in which the instruction at position (i, n) is
\* replaced by the decodable one, everything else being the same.
LogWithDecodable(i, n) ==
    IF n = Top
    THEN decode_transaction_log(
             [Tx EXCEPT !.message.instructions[i] = DecodableInstruction],
             unwrap(execution), config_of(registry))
    ELSE decode_transaction_log(
             Tx,
             [unwrap(execution) EXCEPT
                 !.meta.inner_instructions[i][n].instruction
                     = DecodableInstruction],
             config_of(registry))

\* C21: an instruction that does not decode aborts nothing: every
\* instruction of the transaction, inner ones included, has its entry, and
\* the entries of all other instructions are what they are when the bad
\* instruction is replaced by one that decodes; the bad instruction's own
\* entry keeps its index, depth and children.
C21_FailedDecodeAbortsNothing ==
    TxDecoded =>
        \A p \in Positions :
            /\ Logged(p[1], p[2])
            /\ Entry(p[1], p[2]).decoded_instruction = None =>
                   LET other == LogWithDecodable(p[1], p[2])
                   IN  /\ Len(other.instructions) = Len(TxLog.instructions)
                       /\ \A i \in 1..Len(TxLog.instructions) :
                              /\ DOMAIN other.instructions[i]
                                     = DOMAIN TxLog.instructions[i]
                              /\ i # p[1] =>
                                     other.instructions[i]
                                         = TxLog.instructions[i]
                              /\ \A n \in DOMAIN TxLog.instructions[i] :
                                     <<i, n>> # p =>
                                         other.instructions[i][n]
                                             = Entry(i, n)
                       /\ other.instructions[p[1]][p[2]].decoded_instruction
                              # None
                       /\ \A f \in {"index", "depth", "inner_instructions"} :
                              other.instructions[p[1]][p[2]][f]
                                  = Entry(p[1], p[2])[f]

\* The first of two instructions carries a payload of no discriminator and
\* has inner instructions of which the first does not decode; the second
\* instruction decodes.
C21_Witness ==
    /\ TxDecoded
    /\ Len(Tx.message.instructions) = 2
    /\ Len(InnerOf(1)) = 3
    /\ Compiled(1, Top).program_id_index = 2
    /\ Entry(1, Top).decoded_instruction = None
    /\ Entry(1, 1).decoded_instruction = None
    /\ Entry(1, 2).decoded_instruction # None
    /\ Entry(2, Top).decoded_instruction # None
    /\ unwrap(Entry(2, Top).decoded_instruction).fields
           = <<[name |-> "value", value |-> "42"]>>

\* The index is one of no account key of the message.
OutOfRange(idx) == idx >= Len(Tx.message.account_keys)

\* C29: an index of no account key, for the program or for an account,
\* stands for the default key and the entry is still produced; the resolved
\* accounts of every entry are as many as the compiled account indices and in
\* their order.
C29_OutOfRangeIsDefault ==
    TxDecoded =>
        \A p \in Positions :
            /\ Logged(p[1], p[2])
            /\ LET compiled == Compiled(p[1], p[2])
                   entry    == Entry(p[1], p[2])
               IN  /\ OutOfRange(compiled.program_id_index)
                          => entry.program_id = Pubkey_default
                   /\ ~OutOfRange(compiled.program_id_index)
                          => entry.program_id
                                 = Tx.message.account_keys[
                                       compiled.program_id_index + 1]
                   /\ DOMAIN entry.accounts = DOMAIN compiled.accounts
                   /\ \A a \in DOMAIN compiled.accounts :
                          entry.accounts[a].pubkey
                              = IF OutOfRange(compiled.accounts[a])
                                THEN Pubkey_default
                                ELSE Tx.message.account_keys[
                                         compiled.accounts[a] + 1]

\* A top-level instruction whose program index and second account index are
\* of no key, with an inner instruction whose program index is of no key.
C29_Witness ==
    /\ TxDecoded
    /\ \E i \in 1..Len(Tx.message.instructions) :
           /\ OutOfRange(Compiled(i, Top).program_id_index)
           /\ Compiled(i, Top).accounts = <<1, 9>>
           /\ Len(InnerOf(i)) = 1
           /\ OutOfRange(Compiled(i, 1).program_id_index)
           /\ Logged(i, 1)
           /\ Entry(i, Top).program_id = Pubkey_default
           /\ Entry(i, 1).program_id = Pubkey_default
           /\ Len(Entry(i, Top).accounts) = 2
           /\ Entry(i, Top).accounts[1].pubkey = 11
           /\ Entry(i, Top).accounts[2].pubkey = Pubkey_default

\* The records of the i-th tree of the log that have record n as a child,
\* each as often as it has it.
ParentsIn(i, n) ==
    {<<m, k>> \in (DOMAIN TxLog.instructions[i]) \X (1..Len(InnerOf(i))) :
        /\ k <= Len(Entry(i, m).inner_instructions)
        /\ Entry(i, m).inner_instructions[k] = n}

\* The log of the transaction without its last instruction, under the same
\* result.
LogWithoutLast ==
    decode_transaction_log(
        [Tx EXCEPT !.message.instructions
                       = SubSeq(@, 1, Len(Tx.message.instructions) - 1)],
        unwrap(execution), config_of(registry))

\* C27: the inner instructions grouped under top-level index i are the
\* records of the tree of entry i and of no other: tree i has one record for
\* each of them, made from it, attached once and below a record of the same
\* tree that was there before it; an instruction without a group has no
\* children; and the entries before the last are what they are without the
\* last instruction.
C27_OwnTreeOnly ==
    TxDecoded =>
        /\ \A i \in 1..Len(TxLog.instructions) :
               /\ DOMAIN TxLog.instructions[i] = 0..Len(InnerOf(i))
               /\ \A n \in 1..Len(InnerOf(i)) :
                      /\ Entry(i, n).index = n - 1
                      /\ Entry(i, n).data = InnerOf(i)[n].instruction.data
                      /\ Entry(i, n).program_id
                             = KeyAt(InnerOf(i)[n].instruction.program_id_index)
                      /\ Cardinality(ParentsIn(i, n)) = 1
                      /\ \A at \in ParentsIn(i, n) : at[1] < n
               /\ ParentsIn(i, Top) = {}
               /\ InnerOf(i) = <<>> => Entry(i, Top).inner_instructions = <<>>
        /\ Tx.message.instructions # <<>> =>
               LogWithoutLast.instructions
                   = SubSeq(TxLog.instructions, 1, Len(TxLog.instructions) - 1)

\* Two instructions with a group each, the first group of three nested
\* records, and a third instruction without a group, which has no children.
C27_Witness ==
    /\ TxDecoded
    /\ Len(TxLog.instructions) \in {2, 3}
    /\ Len(InnerOf(1)) = 3
    /\ Len(InnerOf(2)) = 1
    /\ Entry(1, Top).inner_instructions = <<1, 3>>
    /\ Entry(1, 1).inner_instructions = <<2>>
    /\ Entry(2, Top).inner_instructions = <<1>>
    /\ Entry(1, 1).data # Entry(2, 1).data
    /\ Len(TxLog.instructions) = 3 => Entry(3, Top).inner_instructions = <<>>

\* The logs of the transaction after a change the projection has no field
\* for: other program log lines, other raw data of one top-level
\* instruction, or the first inner instruction of one group at stack height 1
\* instead of 2.
ChangedLogs ==
    {decode_transaction_log(
         Tx, [unwrap(execution) EXCEPT !.meta.logs = <<"Program log: other">>],
         config_of(registry))}
    \cup UNION {{decode_transaction_log(
                     [Tx EXCEPT !.message.instructions[i].data = payload],
                     unwrap(execution), config_of(registry)) :
                    payload \in SamplePayloads} :
                   i \in 1..Len(Tx.message.instructions)}
    \cup {decode_transaction_log(
              Tx,
              [unwrap(execution) EXCEPT
                  !.meta.inner_instructions[i][1].stack_height = 1],
              config_of(registry)) :
             i \in {j \in 1..Len(Meta.inner_instructions) :
                       Meta.inner_instructions[j] # <<>>}}

\* C23: the projection has a field for every structural field of the
\* transaction log and of the instruction logs, so two logs that differ have
\* different projections.
C23_ProjectionComplete ==
    TxDecoded =>
        \A other \in ChangedLogs :
            other # TxLog =>
                transaction_log_to_snapshot(other)
                    # transaction_log_to_snapshot(TxLog)

\* The projection does tell apart logs that differ in a field it has: status,
\* fee, compute units, and the program, accounts, decoded instruction and
\* children of an entry.
C23_ProjectedFieldsDiffer ==
    TxDecoded =>
        \A other \in ChangedLogs :
            (\/ other.status # TxLog.status
             \/ \E i \in 1..Len(TxLog.instructions) :
                    \E n \in DOMAIN TxLog.instructions[i] :
                        \/ n \notin DOMAIN other.instructions[i]
                        \/ \E f \in {"program_id", "program_name", "accounts",
                                     "decoded_instruction",
                                     "inner_instructions"} :
                               other.instructions[i][n][f] # Entry(i, n)[f])
                => transaction_log_to_snapshot(other)
                       # transaction_log_to_snapshot(TxLog)

\* A step of the loop of parse_inner_instructions gives the record of a
\* stack height of at most 2 its depth and appends it to the children of the
\* top-level entry, whatever the tree holds, and changes no other entry.
ShallowIsLastTopLevelChild ==
    (pc = "inner" /\ inner_idx' = inner_idx + 1) =>
        LET k            == inner_idx + 1
            stack_height == unwrap(inner_ixs)[k]
        IN  /\ stack_height \in {0, 1} => parent'[k].depth = 0
            /\ stack_height >= 1 => parent'[k].depth + 1 = stack_height
            /\ stack_height <= 2 =>
                   /\ parent'[Top].inner_instructions
                          = Append(parent[Top].inner_instructions, k)
                   /\ parent'[k].inner_instructions = <<>>
                   /\ \A n \in (DOMAIN parent) \ {Top} :
                          parent'[n] = parent[n]

\* C26: the depth of a record is its stack height minus one, and 0 for the
\* stack heights 0 and 1; every record of depth at most 1 (stack height 0, 1
\* or 2) becomes the last direct child of the top-level entry, whatever nodes
\* the tree has.
C26_ShallowToTopLevel == [][ShallowIsLastTopLevelChild]_vars

\* Stack heights [1, 0, 2, 3, 2]: the records of height 1, 0 and 2 are
\* children of the top level although records of depth 0 precede them, and
\* so is the last one, after a deeper record.
C26_Witness ==
    /\ pc = "push"
    /\ inner_ixs = Some(<<1, 0, 2, 3, 2>>)
    /\ parent[Top].inner_instructions = <<1, 2, 3, 5>>
    /\ parent[3].inner_instructions = <<4>>
    /\ parent[1].depth = 0
    /\ parent[2].depth = 0
    /\ parent[5].depth = 1

\* C28: a key of both maps has a snapshot whose lamports_before and
\* data_len_before are those of its pre entry, whose lamports_after and
\* data_len_after are those of its post entry, and whose owner is the owner
\* of the pre entry, also when the post entry has another owner.
C28_OwnerFromPre ==
    (Decoded /\ BothSupplied) =>
        /\ unwrap(log).account_states # None
        /\ \A key \in (DOMAIN unwrap(pre_states))
                          \cap (DOMAIN unwrap(post_states)) :
               LET before   == unwrap(pre_states)[key]
                   after    == unwrap(post_states)[key]
                   snapshot == unwrap(unwrap(log).account_states)[key]
               IN  /\ snapshot.lamports_before = before[1]
                   /\ snapshot.data_len_before = before[2]
                   /\ snapshot.lamports_after = after[1]
                   /\ snapshot.data_len_after = after[2]
                   /\ snapshot.owner = before[3]

\* An account of both maps whose lamports, data length and owner all changed
\* has the owner it had before.
C28_Witness ==
    /\ Decoded
    /\ BothSupplied
    /\ \E key \in (DOMAIN unwrap(pre_states)) \cap (DOMAIN unwrap(post_states)) :
           /\ unwrap(pre_states)[key] = <<1, 0, 1>>
           /\ unwrap(post_states)[key] = <<0, 1, Pubkey_default>>
           /\ unwrap(unwrap(log).account_states)[key].owner = 1
           /\ unwrap(unwrap(log).account_states)[key].lamports_after = 0

\* ----------------------------------------------------------- the log file

\* The escape character '\x1b'.
ESC == "^["

\* char::is_ascii_alphabetic
is_ascii_alphabetic(c) ==
    c \in {"a", "b", "c", "d", "e", "f", "g", "h", "i", "j", "k", "l", "m",
           "n", "o", "p", "q", "r", "s", "t", "u", "v", "w", "x", "y", "z",
           "A", "B", "C", "D", "E", "F", "G", "H", "I", "J", "K", "L", "M",
           "N", "O", "P", "Q", "R", "S", "T", "U", "V", "W", "X", "Y", "Z"}

\* The inner loop of strip_ansi_codes, entered with the characters from
\* position j on still to be read: it consumes characters up to and including
\* the first ASCII letter, or to the end of the text. The value is the
\* position of the first character it leaves.
RECURSIVE consume_sequence_to_digit(_, _)
consume_sequence_to_digit(chars, j) ==
    IF j > Len(chars) THEN j
    ELSE IF ~is_ascii_alphabetic(chars[j]) /\ chars[j] # "["
              /\ chars[j] # ESC
         THEN j + 1
    ELSE consume_sequence_to_digit(chars, j + 1)
RECURSIVE consume_sequence(_, _)
consume_sequence(chars, j) ==
    IF j > Len(chars) THEN j
    ELSE IF is_ascii_alphabetic(chars[j]) THEN j + 1
    ELSE consume_sequence(chars, j + 1)

\* The outer loop of strip_ansi_codes from position i on, with the result
\* built so far.
RECURSIVE strip_ansi_codes_from(_, _, _)
strip_ansi_codes_from(chars, i, built) ==
    IF i > Len(chars) THEN built
    ELSE IF chars[i] = ESC
         THEN IF i + 1 <= Len(chars) /\ chars[i + 1] = "["
              THEN strip_ansi_codes_from(chars, consume_sequence(chars, i + 2),
                                         built)
              ELSE strip_ansi_codes_from(chars, i + 1, built)
    ELSE strip_ansi_codes_from(chars, i + 1, Append(built, chars[i]))

\* strip_ansi_codes(text)
strip_ansi_codes(chars) == strip_ansi_codes_from(chars, 1, <<>>)

\* The texts handed to strip_ansi_codes: the escape character, the bracket,
\* a letter and a digit, in every order.
MaxText == 5
Chars == {ESC, "[", "m", "1"}
Texts == UNION {[1..n -> Chars] : n \in 0..MaxText}

InitStrip ==
    /\ pc = "start"
    /\ TraceIdle
    /\ DiffIdle
    /\ CaptureIdle
    /\ DecodeIdle
    /\ RegistryIdle
    /\ TxIdle
    /\ BorshIdle
    /\ LoggerIdle
    /\ content \in Texts
    /\ stripped = None

\* One call of strip_ansi_codes.
StripAnsiCodes ==
    /\ pc = "start"
    /\ stripped' = Some(strip_ansi_codes(content))
    /\ pc' = "done"
    /\ UNCHANGED <<inner_ixs, inner_idx, parent, instructions>>
    /\ UNCHANGED diffVars
    /\ UNCHANGED <<captureVars, decodeVars, registryVars, txVars>>
    /\ UNCHANGED <<content, borshVars, loggerVars>>

NextStrip == StripAnsiCodes

SpecStrip == InitStrip /\ [][NextStrip]_vars

\* The last position of the escape sequence that starts with the escape
\* character at position s: the first ASCII letter after the bracket, the end
\* of the text when no letter follows, and s itself when no bracket follows.
SequenceEnd(chars, s) ==
    IF s + 1 <= Len(chars) /\ chars[s + 1] = "["
    THEN IF \E j \in (s + 2)..Len(chars) : is_ascii_alphabetic(chars[j])
         THEN CHOOSE j \in (s + 2)..Len(chars) :
                  /\ is_ascii_alphabetic(chars[j])
                  /\ \A l \in (s + 2)..(j - 1) : ~is_ascii_alphabetic(chars[l])
         ELSE Len(chars)
    ELSE s

\* The positions at which an escape sequence starts: those of the escape
\* characters that are part of no sequence started before them.
SequenceStarts(chars) ==
    LET starts[s \in 1..Len(chars)] ==
            /\ chars[s] = ESC
            /\ \A t \in 1..(s - 1) : starts[t] => SequenceEnd(chars, t) < s
    IN  {s \in 1..Len(chars) : starts[s]}

\* The characters of the first n positions that are in no escape sequence, in
\* their order.
RECURSIVE OutsideSequences(_, _)
OutsideSequences(chars, n) ==
    IF n = 0 THEN <<>>
    ELSE IF \E s \in SequenceStarts(chars) : s <= n /\ n <= SequenceEnd(chars, s)
         THEN OutsideSequences(chars, n - 1)
    ELSE Append(OutsideSequences(chars, n - 1), chars[n])

\* C25: strip_ansi_codes returns the text without its escape sequences (the
\* escape character, a bracket and everything up to and including the first
\* ASCII letter, or the escape character alone), the other characters in
\* their order; what it returns holds no escape character, and a text
\* without escape character is returned as it is.
C25_StripsEscapeSequences ==
    (pc = "done" /\ stripped # None) =>
        /\ unwrap(stripped) = OutsideSequences(content, Len(content))
        /\ ESC \notin Range(unwrap(stripped))
        /\ ESC \notin Range(content) => unwrap(stripped) = content

\* A text with a terminated sequence between two kept characters, and one of
\* a lone escape character followed by kept characters.
C25_Witness ==
    /\ pc = "done"
    /\ \/ content = <<"1", ESC, "[", "1", "m">> /\ stripped = Some(<<"1">>)
       \/ content = <<ESC, "m", ESC, "[", "[">> /\ stripped = Some(<<"m">>)

\* --------------------------------------------- the borsh-deserialized types

\* <bool as BorshDeserialize>::deserialize_reader on the bytes left: one byte
\* is read; 0 is false, 1 is true, any other byte is an error.
deserialize_bool(bytes) ==
    IF bytes = <<>>
    THEN [kind |-> "Err", error |-> "Unexpected length of input"]
    ELSE IF Head(bytes) > 1
         THEN [kind |-> "Err", error |-> "Invalid bool representation"]
    ELSE [kind |-> "Ok", value |-> (Head(bytes) = 1), rest |-> Tail(bytes)]

\* <u8 as BorshDeserialize>::deserialize_reader
deserialize_u8(bytes) ==
    IF bytes = <<>>
    THEN [kind |-> "Err", error |-> "Unexpected length of input"]
    ELSE [kind |-> "Ok", value |-> Head(bytes), rest |-> Tail(bytes)]

\* The derived CompressedCpiContext::deserialize_reader: the fields are read
\* in their order, and the first error is the result.
CompressedCpiContext_deserialize(bytes) ==
    LET set_context == deserialize_bool(bytes)
    IN  IF set_context.kind = "Err" THEN set_context
        ELSE LET first_set_context == deserialize_bool(set_context.rest)
             IN  IF first_set_context.kind = "Err" THEN first_set_context
                 ELSE LET index == deserialize_u8(first_set_context.rest)
                      IN  IF index.kind = "Err" THEN index
                          ELSE [kind  |-> "Ok",
                                value |->
                                    [set_context       |-> set_context.value,
                                     first_set_context |->
                                         first_set_context.value,
                                     cpi_context_account_index |->
                                         index.value],
                                rest  |-> index.rest]

\* The byte slices handed to the deserialization.
MaxSlice == 4
SampleBytes == {0, 1, 2, 255}
Slices == UNION {[1..n -> SampleBytes] : n \in 0..MaxSlice}

InitBorsh ==
    /\ pc = "start"
    /\ TraceIdle
    /\ DiffIdle
    /\ CaptureIdle
    /\ DecodeIdle
    /\ RegistryIdle
    /\ TxIdle
    /\ StripIdle
    /\ LoggerIdle
    /\ slice \in Slices
    /\ deserialized = None

\* One deserialization of a CompressedCpiContext.
Deserialize ==
    /\ pc = "start"
    /\ deserialized' = Some(CompressedCpiContext_deserialize(slice))
    /\ pc' = "done"
    /\ UNCHANGED <<inner_ixs, inner_idx, parent, instructions>>
    /\ UNCHANGED diffVars
    /\ UNCHANGED <<captureVars, decodeVars, registryVars, txVars>>
    /\ UNCHANGED <<slice, stripVars, loggerVars>>

NextBorsh == Deserialize

SpecBorsh == InitBorsh /\ [][NextBorsh]_vars

\* C22: reading a boolean consumes one byte and takes every nonzero byte for
\* true: a slice that holds the three bytes of a CompressedCpiContext is
\* deserialized whatever its first two bytes are, the flags are true exactly
\* for the nonzero bytes, and one byte is consumed for each.
C22_NonzeroIsTrue ==
    (pc = "done" /\ Len(slice) >= 3) =>
        /\ unwrap(deserialized).kind = "Ok"
        /\ unwrap(deserialized).value.set_context = (slice[1] # 0)
        /\ unwrap(deserialized).value.first_set_context = (slice[2] # 0)
        /\ unwrap(deserialized).value.cpi_context_account_index = slice[3]
        /\ unwrap(deserialized).rest = SubSeq(slice, 4, Len(slice))

\* For the bytes 0 and 1 the boolean is read as the claim says, one byte for
\* each flag, and every other byte makes the deserialization fail.
C22_ZeroOrOneElseError ==
    (pc = "done" /\ Len(slice) >= 3) =>
        IF slice[1] \in {0, 1} /\ slice[2] \in {0, 1}
        THEN /\ unwrap(deserialized).kind = "Ok"
             /\ unwrap(deserialized).value
                    = [set_context               |-> slice[1] = 1,
                       first_set_context         |-> slice[2] = 1,
                       cpi_context_account_index |-> slice[3]]
             /\ unwrap(deserialized).rest = SubSeq(slice, 4, Len(slice))
        ELSE unwrap(deserialized).kind = "Err"

\* ------------------------------------------------ the logger and its file

\* AtomicUsize::fetch_add(val, Relaxed): the counter after the call and the
\* value it had before, in one atomic step.
fetch_add_load_only(value, val) == [counter |-> value, previous |-> value]
fetch_add(value, val) == [counter |-> value + val, previous |-> value]

\* Once::call_once seen from the calling thread: the first caller runs the
\* closure, a caller that finds the closure running waits for it, and a
\* caller that finds it done goes on.
call_once_every_call(once) == [once |-> "running", at |-> "create"]
call_once(once) ==
    IF once = "new" THEN [once |-> "running", at |-> "create"]
    ELSE IF once = "done" THEN [once |-> "done", at |-> "spin"]
    ELSE [once |-> "running", at |-> "call_once"]

\* format_transaction(log, config, tx_number): a text with colour codes that
\* names the transaction by its number.
format_transaction(tx_number) ==
    <<ESC, "[", "1", "m", "#">>
        \o [i \in 1..Len(to_base(<<tx_number>>, 256, 10)) |->
               Digit[Reverse(to_base(<<tx_number>>, 256, 10))[i] + 1]]
        \o <<ESC, "[", "0", "m">>

\* The threads that call one logging callback (or one TransactionLogger), and
\* the number of calls each of them makes.
MaxThreads == 2
MaxCalls == 2
Threads == 1..MaxThreads

\* The log file an earlier process may have left.
StaleFiles == {<<>>, <<(<<"o", "l", "d">>)>>}

InitLogger ==
    /\ pc = "start"
    /\ TraceIdle
    /\ DiffIdle
    /\ CaptureIdle
    /\ DecodeIdle
    /\ RegistryIdle
    /\ TxIdle
    /\ StripIdle
    /\ BorshIdle
    /\ counter = 0
    /\ LOG_INIT = "new"
    /\ LOG_INIT_DONE = FALSE
    /\ file \in StaleFiles
    /\ callers = [t \in Threads |-> [at |-> "idle", tx_number |-> 0, calls |-> 0]]
    /\ tx_numbers = <<>>
    /\ created = 0
    /\ appended = <<>>

\* What the steps of the logger leave alone.
LoggerFrame ==
    /\ UNCHANGED <<pc, inner_ixs, inner_idx, parent, instructions>>
    /\ UNCHANGED diffVars
    /\ UNCHANGED <<captureVars, decodeVars, registryVars, txVars>>
    /\ UNCHANGED <<stripVars, borshVars>>

\* let tx_number = counter.fetch_add(1, Ordering::Relaxed) + 1;
FetchAdd(t) ==
    /\ callers[t].at = "idle"
    /\ callers[t].calls < MaxCalls
    /\ LET fetched == fetch_add(counter, 1)
       IN  /\ counter' = fetched.counter
           /\ callers' = [callers EXCEPT ![t].tx_number = fetched.previous + 1,
                                         ![t].at = "call_once"]
           /\ tx_numbers' = Append(tx_numbers, fetched.previous + 1)
    /\ UNCHANGED <<LOG_INIT, LOG_INIT_DONE, file, created, appended>>
    /\ LoggerFrame

\* write_to_log_file: LOG_INIT.call_once(|| ..)
CallOnce(t) ==
    /\ callers[t].at = "call_once"
    /\ LOG_INIT' = call_once(LOG_INIT).once
    /\ callers' = [callers EXCEPT ![t].at = call_once(LOG_INIT).at]
    /\ UNCHANGED <<counter, LOG_INIT_DONE, file, tx_numbers, created, appended>>
    /\ LoggerFrame

\* The closure: fs::File::create(LOG_PATH) truncates the file.
Create(t) ==
    /\ callers[t].at = "create"
    /\ file' = <<>>
    /\ created' = created + 1
    /\ callers' = [callers EXCEPT ![t].at = "store"]
    /\ UNCHANGED <<counter, LOG_INIT, LOG_INIT_DONE, tx_numbers, appended>>
    /\ LoggerFrame

\* The closure: LOG_INIT_DONE.store(true, Ordering::Release)
Store(t) ==
    /\ callers[t].at = "store"
    /\ LOG_INIT_DONE' = TRUE
    /\ callers' = [callers EXCEPT ![t].at = "return"]
    /\ UNCHANGED <<counter, LOG_INIT, file, tx_numbers, created, appended>>
    /\ LoggerFrame

\* The closure returns and the Once is complete.
OnceReturn(t) ==
    /\ callers[t].at = "return"
    /\ LOG_INIT' = "done"
    /\ callers' = [callers EXCEPT ![t].at = "spin"]
    /\ UNCHANGED <<counter, LOG_INIT_DONE, file, tx_numbers, created, appended>>
    /\ LoggerFrame

\* while !LOG_INIT_DONE.load(Ordering::Acquire) { spin_loop() }
Spin(t) ==
    /\ callers[t].at = "spin"
    /\ callers' = [callers EXCEPT
                      ![t].at = IF LOG_INIT_DONE THEN "append" ELSE "spin"]
    /\ UNCHANGED <<counter, LOG_INIT, LOG_INIT_DONE, file, tx_numbers,
                   created, appended>>
    /\ LoggerFrame

\* The stripped text is written to the file opened for appending, and the
\* call of the callback is over.
AppendToFile(t) ==
    /\ callers[t].at = "append"
    /\ LET text_stripped ==
               strip_ansi_codes(format_transaction(callers[t].tx_number))
       IN  /\ file' = Append(file, text_stripped)
           /\ appended' = Append(appended, text_stripped)
    /\ callers' = [callers EXCEPT ![t].at = "idle",
                                  ![t].calls = callers[t].calls + 1]
    /\ UNCHANGED <<counter, LOG_INIT, LOG_INIT_DONE, tx_numbers, created>>
    /\ LoggerFrame

NextLogger ==
    \E t \in Threads :
        \/ FetchAdd(t)
        \/ CallOnce(t)
        \/ Create(t)
        \/ Store(t)
        \/ OnceReturn(t)
        \/ Spin(t)
        \/ AppendToFile(t)

SpecLogger == InitLogger /\ [][NextLogger]_vars

LoggerRuns == callers # <<>>

RECURSIVE CallsBegun(_)
CallsBegun(n) ==
    IF n = 0 THEN 0
    ELSE CallsBegun(n - 1) + callers[n].calls
             + (IF callers[n].at = "idle" THEN 0 ELSE 1)

\* C30: the tx_numbers of one logger start at 1 and grow by 1 with every
\* call: after N calls, under every interleaving, the numbers handed out are
\* 1..N in the order of the calls, none twice, none left out, and every
\* thread in a call holds one of them that no other thread holds.
C30_SequenceNumbers ==
    LoggerRuns =>
        /\ Len(tx_numbers) = CallsBegun(MaxThreads)
        /\ counter = Len(tx_numbers)
        /\ \A i \in 1..Len(tx_numbers) : tx_numbers[i] = i
        /\ \A t \in Threads :
               callers[t].at # "idle" => callers[t].tx_number \in 1..counter
        /\ \A t, u \in Threads :
               (t # u /\ callers[t].at # "idle" /\ callers[u].at # "idle")
                   => callers[t].tx_number # callers[u].tx_number
        /\ \A i, j \in 1..Len(appended) : i # j => appended[i] # appended[j]

\* Both threads are in a call at once, and the thread that fetched its
\* number second writes first.
C30_Witness ==
    /\ LoggerRuns
    /\ counter = MaxThreads * MaxCalls
    /\ callers[1].at = "append"
    /\ callers[1].tx_number = 3
    /\ callers[2].at = "spin"
    /\ callers[2].tx_number = 4
    /\ appended = <<(<<"#", "2">>), <<"#", "1">>>>

====
